---- MODULE Spec2Model ----
(***************************************************************************)
(* A model of the HTTP request assembler of hamza-http-server-lib          *)
(* (http_message_handler) and of the byte streams a client feeds to it.    *)
(*                                                                         *)
(* A std::string is a sequence of one-character strings.  A                *)
(* std::multimap<string,string> is a sequence of [name, value] records     *)
(* kept sorted by name, equal names in insertion order.  An istringstream  *)
(* is the sequence of characters not yet extracted from it.                *)
(***************************************************************************)
EXTENDS Integers, Sequences, FiniteSets, TLC

(***************************************************************************)
(* Characters                                                              *)
(***************************************************************************)
CR == "\r"
LF == "\n"
SP == " "
HT == "\t"

\* The characters of the model in ASCII order (the order std::string's
\* operator< compares them in).
ASCII ==
  << HT, LF, CR, SP, "+", ",", "-", "/",
     "0", "1", "2", "3", "4", "5", "6", "7", "8", "9", ":", ";",
     "A", "B", "C", "D", "E", "F", "G", "H", "I", "J", "K", "L", "M",
     "N", "O", "P", "Q", "R", "S", "T", "U", "V", "W", "X", "Y", "Z", "_",
     "a", "b", "c", "d", "e", "f", "g", "h", "i", "j", "k", "l", "m",
     "n", "o", "p", "q", "r", "s", "t", "u", "v", "w", "x", "y", "z" >>

Char == {ASCII[i] : i \in 1..Len(ASCII)}

Ord == [c \in Char |-> CHOOSE i \in 1..Len(ASCII) : ASCII[i] = c]

UpperLetters ==
  << "A", "B", "C", "D", "E", "F", "G", "H", "I", "J", "K", "L", "M",
     "N", "O", "P", "Q", "R", "S", "T", "U", "V", "W", "X", "Y", "Z" >>

LowerLetters ==
  << "a", "b", "c", "d", "e", "f", "g", "h", "i", "j", "k", "l", "m",
     "n", "o", "p", "q", "r", "s", "t", "u", "v", "w", "x", "y", "z" >>

toupper ==
  [c \in Char |->
     IF \E i \in 1..26 : LowerLetters[i] = c
     THEN UpperLetters[CHOOSE i \in 1..26 : LowerLetters[i] = c]
     ELSE c]

tolower ==
  [c \in Char |->
     IF \E i \in 1..26 : UpperLetters[i] = c
     THEN LowerLetters[CHOOSE i \in 1..26 : UpperLetters[i] = c]
     ELSE c]

\* isspace in the "C" locale, over the characters of the model.
isspace(c) == c \in {SP, HT, LF, CR}

isdigit(c) == c \in {"0", "1", "2", "3", "4", "5", "6", "7", "8", "9"}

isxdigit(c) ==
  isdigit(c) \/ c \in {"a", "b", "c", "d", "e", "f", "A", "B", "C", "D", "E", "F"}

DigitValue(c) == Ord[c] - Ord["0"]

HexDigitValue(c) ==
  IF isdigit(c) THEN Ord[c] - Ord["0"]
  ELSE IF Ord[c] >= Ord["a"] THEN Ord[c] - Ord["a"] + 10
  ELSE Ord[c] - Ord["A"] + 10

(***************************************************************************)
(* std::string                                                             *)
(***************************************************************************)
npos == 0 - 1

\* s.substr(pos) and s.substr(pos, count), pos counted from 0.
substr_from(s, pos) == SubSeq(s, pos + 1, Len(s))

substr(s, pos, count) ==
  SubSeq(s, pos + 1, IF pos + count > Len(s) THEN Len(s) ELSE pos + count)

\* s.find(c): the 0-based position of the first c, or npos.
find_char(s, c) ==
  IF \E i \in 1..Len(s) : s[i] = c
  THEN (CHOOSE i \in 1..Len(s) : s[i] = c /\ \A j \in 1..(i - 1) : s[j] # c) - 1
  ELSE npos

\* s.find_first_not_of(" \t") and s.find_last_not_of(" \t").
find_first_not_of_blank(s) ==
  IF \E i \in 1..Len(s) : s[i] \notin {SP, HT}
  THEN (CHOOSE i \in 1..Len(s) :
          s[i] \notin {SP, HT} /\ \A j \in 1..(i - 1) : s[j] \in {SP, HT}) - 1
  ELSE npos

find_last_not_of_blank(s) ==
  IF \E i \in 1..Len(s) : s[i] \notin {SP, HT}
  THEN (CHOOSE i \in 1..Len(s) :
          s[i] \notin {SP, HT} /\ \A j \in (i + 1)..Len(s) : s[j] \in {SP, HT}) - 1
  ELSE npos

\* s.find(t) # npos for a string t.
contains_substring(s, t) ==
  \E i \in 0..(Len(s) - Len(t)) : SubSeq(s, i + 1, i + Len(t)) = t

\* operator< of std::string.
string_less(a, b) ==
  LET n == IF Len(a) < Len(b) THEN Len(a) ELSE Len(b)
  IN  IF \E i \in 1..n : a[i] # b[i]
      THEN LET i == CHOOSE k \in 1..n : a[k] # b[k] /\ \A j \in 1..(k - 1) : a[j] = b[j]
           IN  Ord[a[i]] < Ord[b[i]]
      ELSE Len(a) < Len(b)

to_upper_case(s) == [i \in 1..Len(s) |-> toupper[s[i]]]

to_lower_case(s) == [i \in 1..Len(s) |-> tolower[s[i]]]

(***************************************************************************)
(* std::istringstream                                                      *)
(***************************************************************************)
\* The stream cut at 0-based position p of its first '\n' (npos: no '\n').
line_and_rest(stream, p) ==
  IF p = npos
  THEN [ok |-> TRUE, line |-> stream, rest |-> << >>]
  ELSE [ok |-> TRUE, line |-> substr(stream, 0, p), rest |-> substr_from(stream, p + 1)]

\* std::getline(stream, line): fails on an exhausted stream; otherwise the
\* line is everything before the first '\n' (or all that is left) and the
\* '\n' is consumed.
getline(stream) ==
  IF stream = << >>
  THEN [ok |-> FALSE, line |-> << >>, rest |-> << >>]
  ELSE line_and_rest(stream, find_char(stream, LF))

\* if (!line.empty() && line.back() == '\r') line.pop_back();
strip_cr(line) ==
  IF line # << >> /\ line[Len(line)] = CR
  THEN SubSeq(line, 1, Len(line) - 1)
  ELSE line

\* The 1-based position of the first character of s that is (is not)
\* whitespace, Len(s) + 1 when there is none.
first_space(s) ==
  IF \E i \in 1..Len(s) : isspace(s[i])
  THEN CHOOSE i \in 1..Len(s) : isspace(s[i]) /\ \A j \in 1..(i - 1) : ~isspace(s[j])
  ELSE Len(s) + 1

first_non_space(s) ==
  IF \E i \in 1..Len(s) : ~isspace(s[i])
  THEN CHOOSE i \in 1..Len(s) : ~isspace(s[i]) /\ \A j \in 1..(i - 1) : isspace(s[j])
  ELSE Len(s) + 1

token_and_rest(after, stop) ==
  [token |-> SubSeq(after, 1, stop - 1), rest |-> SubSeq(after, stop, Len(after))]

skip_whitespace(stream) == SubSeq(stream, first_non_space(stream), Len(stream))

token_of(after) == token_and_rest(after, first_space(after))

\* stream >> token: skips leading whitespace, then takes the characters up
\* to the next whitespace.  An empty token is a failed extraction.
extract_token(stream) == token_of(skip_whitespace(stream))

\* stream.read(buffer, n): n characters, or failure when fewer are left.
stream_read(stream, n) ==
  IF Len(stream) >= n
  THEN [ok |-> TRUE, data |-> SubSeq(stream, 1, n), rest |-> SubSeq(stream, n + 1, Len(stream))]
  ELSE [ok |-> FALSE, data |-> stream, rest |-> << >>]

(***************************************************************************)
(* std::multimap<std::string, std::string>                                 *)
(***************************************************************************)
\* emplace: the new element goes after every element whose name is not
\* greater than its own.
multimap_emplace(m, name, value) ==
  LET k == Cardinality({i \in 1..Len(m) : ~string_less(name, m[i].name)})
  IN  SubSeq(m, 1, k) \o << [name |-> name, value |-> value] >> \o SubSeq(m, k + 1, Len(m))

\* A count of the distinct values under a name instead of the elements:
\* repeated headers of equal value would count once.
multimap_count_values(m, name) == Cardinality({m[i].value : i \in {j \in 1..Len(m) : m[j].name = name}})

multimap_count(m, name) == Cardinality({i \in 1..Len(m) : m[i].name = name})

\* equal_range: the values stored under a name, in container order.
RECURSIVE multimap_equal_range(_, _)
multimap_equal_range(m, name) ==
  IF m = << >> THEN << >>
  ELSE (IF Head(m).name = name THEN << Head(m).value >> ELSE << >>)
       \o multimap_equal_range(Tail(m), name)

\* find(name)->second: the first value stored under the name.
multimap_find_value(m, name) == Head(multimap_equal_range(m, name))

(***************************************************************************)
(* Configuration (hh_http::config) and the strings of the protocol         *)
(***************************************************************************)
\* config::MAX_HEADER_SIZE and config::MAX_BODY_SIZE are run-time settings
\* (16 KiB and 5 MiB unless the application changes them); the model runs
\* the handler under a small setting of each.
MAX_HEADER_SIZE == 40

MAX_BODY_SIZE == 3

\* The largest std::size_t / unsigned long long and the largest unsigned int.
\* The integers of the model checker end at 2^31 - 1, so the model gives both
\* types that width; the streams of the model reach it only through the
\* negation in stoull.
SIZE_MAX == 2147483647

UINT_MAX == 2147483647

CONTENT_LENGTH == << "C", "O", "N", "T", "E", "N", "T", "-", "L", "E", "N", "G", "T", "H" >>

TRANSFER_ENCODING ==
  << "T", "R", "A", "N", "S", "F", "E", "R", "-", "E", "N", "C", "O", "D", "I", "N",
     "G" >>

chunked == << "c", "h", "u", "n", "k", "e", "d" >>

BAD_METHOD_OR_URI_OR_VERSION ==
  << "B", "A", "D", "_", "M", "E", "T", "H", "O", "D", "_", "O", "R", "_", "U", "R", "I",
     "_", "O", "R", "_", "V", "E", "R", "S", "I", "O", "N" >>

BAD_HEADERS_TOO_LARGE ==
  << "B", "A", "D", "_", "H", "E", "A", "D", "E", "R", "S", "_", "T", "O", "O", "_", "L",
     "A", "R", "G", "E" >>

BAD_REPEATED_LENGTH_OR_TRANSFER_ENCODING_OR_BOTH ==
  << "B", "A", "D", "_", "R", "E", "P", "E", "A", "T", "E", "D", "_", "L", "E", "N", "G",
     "T", "H", "_", "O", "R", "_", "T", "R", "A", "N", "S", "F", "E", "R", "_", "E", "N",
     "C", "O", "D", "I", "N", "G", "_", "O", "R", "_", "B", "O", "T", "H" >>

BAD_CONTENT_TOO_LARGE ==
  << "B", "A", "D", "_", "C", "O", "N", "T", "E", "N", "T", "_", "T", "O", "O", "_", "L",
     "A", "R", "G", "E" >>

BAD_CHUNK_ENCODING ==
  << "B", "A", "D", "_", "C", "H", "U", "N", "K", "_", "E", "N", "C", "O", "D", "I", "N",
     "G" >>

BAD_TRAILER_HEADERS ==
  << "B", "A", "D", "_", "T", "R", "A", "I", "L", "E", "R", "_", "H", "E", "A", "D", "E",
     "R", "S" >>

CONTENT_TOO_LARGE ==
  << "C", "O", "N", "T", "E", "N", "T", "_", "T", "O", "O", "_", "L", "A", "R", "G",
     "E" >>

\* struct http_handled_data and its constructor.
http_handled_data(completed, method, uri, version, headers, body) ==
  [completed |-> completed, method |-> method, uri |-> uri, version |-> version,
   headers |-> headers, body |-> body]

\* struct http_data_under_handling, as the handler fills it in.
http_data_under_handling(socket_key, type, content_length, method, uri, version, headers, body, FD) ==
  [socket_key |-> socket_key, type |-> type, content_length |-> content_length,
   method |-> method, uri |-> uri, version |-> version, headers |-> headers,
   body |-> body, FD |-> FD]

\* What a call of the handler does: it returns a value or throws, and leaves
\* the map under_handling_data in some state.
Returned(ret, map) == [threw |-> FALSE, ret |-> ret, map |-> map]

Threw(map) ==
  [threw |-> TRUE, ret |-> http_handled_data(FALSE, << >>, << >>, << >>, << >>, << >>),
   map |-> map]

\* std::map::erase(key) and insert({key, value}) followed by the assignments
\* through operator[].
map_erase(map, key) == [k \in (DOMAIN map) \ {key} |-> map[k]]

map_put(map, key, value) == [k \in (DOMAIN map) \cup {key} |-> IF k = key THEN value ELSE map[k]]

(***************************************************************************)
(* Number conversions                                                      *)
(***************************************************************************)
RECURSIVE decimal_value(_, _)
decimal_value(digits, acc) ==
  IF digits = << >> THEN acc
  ELSE decimal_value(Tail(digits), acc * 10 + DigitValue(Head(digits)))

RECURSIVE hex_value(_, _)
hex_value(digits, acc) ==
  IF digits = << >> THEN acc
  ELSE hex_value(Tail(digits), acc * 16 + HexDigitValue(Head(digits)))

\* The length of the longest prefix of s made of decimal digits.
digit_prefix_len(s) ==
  IF \E i \in 1..Len(s) : ~isdigit(s[i])
  THEN (CHOOSE i \in 1..Len(s) : ~isdigit(s[i]) /\ \A j \in 1..(i - 1) : isdigit(s[j])) - 1
  ELSE Len(s)

stoull_value(negative, n, v) ==
  IF n = 0 \/ v > SIZE_MAX
  THEN [threw |-> TRUE, value |-> 0]
  ELSE [threw |-> FALSE, value |-> IF negative /\ v > 0 THEN SIZE_MAX - v + 1 ELSE v]

stoull_digits(negative, digits) ==
  stoull_value(negative, Len(digits), decimal_value(digits, 0))

stoull_unsigned(negative, body) ==
  stoull_digits(negative, SubSeq(body, 1, digit_prefix_len(body)))

stoull_signed(skipped) ==
  IF skipped # << >> /\ Head(skipped) \in {"+", "-"}
  THEN stoull_unsigned(Head(skipped) = "-", Tail(skipped))
  ELSE stoull_unsigned(FALSE, skipped)

\* std::stoull(s): skips leading whitespace, takes an optional sign and the
\* decimal digits that follow, ignores what comes after them.  No digit:
\* std::invalid_argument; a value beyond unsigned long long:
\* std::out_of_range; a minus sign negates modulo SIZE_MAX + 1.
stoull(s) == stoull_signed(skip_whitespace(s))

\* Lines 304-319: every character of the chunk-size token must be a
\* hexadecimal digit, and hex_stream >> std::hex >> chunk_size_int must
\* succeed (it fails on an empty token and on a value beyond unsigned int).
chunk_size_value(v) ==
  IF v > UINT_MAX THEN [ok |-> FALSE, value |-> 0] ELSE [ok |-> TRUE, value |-> v]

\* A conversion that takes the empty token for zero: a size line that is
\* only an extension would end the body.
chunk_size_of_empty_as_zero(chunk_size_hex) ==
  IF \E i \in 1..Len(chunk_size_hex) : ~isxdigit(chunk_size_hex[i])
  THEN [ok |-> FALSE, value |-> 0]
  ELSE chunk_size_value(hex_value(chunk_size_hex, 0))

chunk_size_of(chunk_size_hex) ==
  IF \E i \in 1..Len(chunk_size_hex) : ~isxdigit(chunk_size_hex[i])
  THEN [ok |-> FALSE, value |-> 0]
  ELSE IF chunk_size_hex = << >>
  THEN [ok |-> FALSE, value |-> 0]
  ELSE chunk_size_value(hex_value(chunk_size_hex, 0))

\* Lines 296-302: the chunk-size token is the line up to the first ';'.
strip_extension(chunk_size_line, semicolon_pos) ==
  IF semicolon_pos # npos THEN substr(chunk_size_line, 0, semicolon_pos) ELSE chunk_size_line

\* Lines 296-319.
parse_chunk_size(chunk_size_line) ==
  chunk_size_of(strip_extension(chunk_size_line, find_char(chunk_size_line, ";")))

(***************************************************************************)
(* http_message_handler: the request line and the headers                  *)
(***************************************************************************)
\* A check of the method and the uri only: a request line without a
\* version would pass.
request_line_result_no_version(method, uri, version, rest) ==
  IF method = << >> \/ uri = << >>
  THEN [valid |-> FALSE, error_message |-> BAD_METHOD_OR_URI_OR_VERSION,
        method |-> method, uri |-> uri, version |-> version, rest |-> rest]
  ELSE [valid |-> TRUE, error_message |-> << >>,
        method |-> method, uri |-> uri, version |-> version, rest |-> rest]

\* Lines 144-149: the check of the three tokens.
request_line_result(method, uri, version, rest) ==
  IF method = << >> \/ uri = << >> \/ version = << >>
  THEN [valid |-> FALSE, error_message |-> BAD_METHOD_OR_URI_OR_VERSION,
        method |-> method, uri |-> uri, version |-> version, rest |-> rest]
  ELSE [valid |-> TRUE, error_message |-> << >>,
        method |-> method, uri |-> uri, version |-> version, rest |-> rest]

\* Line 141: request_line >> method >> uri >> version.
extract_version(t1, t2, rest) ==
  request_line_result(t1.token, t2.token, extract_token(t2.rest).token, rest)

extract_uri(t1, rest) == extract_version(t1, extract_token(t1.rest), rest)

extract_method(line, rest) == extract_uri(extract_token(line), rest)

\* Lines 131-142, g being what getline gave.
split_request_line(g) ==
  IF g.ok /\ g.line # << >>
  THEN extract_method(strip_cr(g.line), g.rest)
  ELSE request_line_result(<< >>, << >>, << >>, g.rest)

\* Lines 125-150.  The result carries the stream after the first line.
parse_request_line(request_stream) == split_request_line(getline(request_stream))

\* Lines 190-195: the trailing blanks (a value of blanks only has no last
\* non-blank and is left as it is).
trim_trailing(value, end) == IF end # npos THEN substr(value, 0, end + 1) ELSE value

\* Lines 183-188: the leading blanks.
trim_leading(value, start) == IF start # npos THEN substr_from(value, start) ELSE value

trim_rest(value) == trim_trailing(value, find_last_not_of_blank(value))

\* Lines 183-195: the value of a header line, trimmed as the code trims it.
trim_header_value(raw) == trim_rest(trim_leading(raw, find_first_not_of_blank(raw)))

\* A size that counts the names only: the values would escape the bound.
header_bytes_names_only(header_name, header_value) == Len(header_name)

\* Line 196: what a header adds to headers_size.
header_bytes(header_name, header_value) == Len(header_name) + Len(header_value)

\* Lines 162-208, the loop of parse_headers, in four steps: the line is
\* read, looked at, split at its colon, and the header counted and stored.
RECURSIVE parse_headers_loop(_, _, _)
store_header(rest, headers, new_size, header_name, header_value) ==
  IF new_size > MAX_HEADER_SIZE
  THEN [valid |-> FALSE, headers |-> << >>, rest |-> rest]
  ELSE parse_headers_loop(rest,
                          multimap_emplace(headers, to_upper_case(header_name), header_value),
                          new_size)

count_header(rest, headers, headers_size, header_name, header_value) ==
  store_header(rest, headers, headers_size + header_bytes(header_name, header_value),
               header_name, header_value)

split_header(rest, line, colon_pos, headers, headers_size) ==
  IF colon_pos = npos
  THEN parse_headers_loop(rest, headers, headers_size)
  ELSE count_header(rest, headers, headers_size, substr(line, 0, colon_pos),
                    trim_header_value(substr_from(line, colon_pos + 1)))

header_line(rest, line, headers, headers_size) ==
  IF line = << >>
  THEN [valid |-> TRUE, headers |-> headers, rest |-> rest]
  ELSE split_header(rest, line, find_char(line, ":"), headers, headers_size)

next_header(g, headers, headers_size) ==
  IF ~g.ok
  THEN [valid |-> TRUE, headers |-> headers, rest |-> << >>]
  ELSE header_line(g.rest, strip_cr(g.line), headers, headers_size)

parse_headers_loop(request_stream, headers, headers_size) ==
  next_header(getline(request_stream), headers, headers_size)

\* Lines 153-209.
parse_headers(request_stream) == parse_headers_loop(request_stream, << >>, 0)

\* A search without the conversion to lower case: "Chunked" would not be
\* found.
contains_chunked_case_sensitive(range) ==
  \E i \in 1..Len(range) : contains_substring(range[i], chunked)

\* Lines 212-225, over the values of the Transfer-Encoding headers.
contains_chunked(range) ==
  \E i \in 1..Len(range) : contains_substring(to_lower_case(range[i]), chunked)

(***************************************************************************)
(* http_message_handler: the body                                          *)
(***************************************************************************)
\* Lines 228-266.  body is what is left of the stream.
handle_content_length(map, socket_key, body, method, uri, version, headers, content_length, FD) ==
  IF Len(body) = content_length
  THEN Returned(http_handled_data(TRUE, method, uri, version, headers, body), map)
  ELSE IF Len(body) > content_length \/ Len(body) > MAX_BODY_SIZE
  THEN Returned(http_handled_data(TRUE, BAD_CONTENT_TOO_LARGE, uri, version, headers, << >>),
                map)
  ELSE Returned(http_handled_data(FALSE, method, uri, version, headers, body),
                map_put(map, socket_key,
                        http_data_under_handling(socket_key, "CONTENT_LENGTH",
                                                 content_length, method, uri, version,
                                                 headers, body, FD)))

\* Lines 282-361 and 452-530: the chunk loop, which the code has twice.  It
\* ends with the chunks complete (the zero chunk was read), with more data
\* needed, or with an error; body is what was appended up to that point and
\* rest what the stream still holds.  too_large is the code returned for an
\* oversized chunk or body, which differs between the two copies.
chunk_error(code, body) == [kind |-> "error", code |-> code, body |-> body, rest |-> << >>]

chunk_more(body) == [kind |-> "more", code |-> << >>, body |-> body, rest |-> << >>]

RECURSIVE chunk_loop(_, _, _)
\* Lines 351-360: the data is appended, then the body size is checked.
chunk_append(rest, appended, too_large) ==
  IF Len(appended) > MAX_BODY_SIZE
  THEN chunk_error(too_large, appended)
  ELSE chunk_loop(rest, appended, too_large)

\* Lines 338-349: the data and its CRLF are read and the CRLF is checked.
chunk_data(r, chunk_size_int, body, too_large) ==
  IF ~r.ok THEN chunk_more(body)
  ELSE IF r.data[chunk_size_int + 1] # CR \/ r.data[chunk_size_int + 2] # LF
  THEN chunk_error(BAD_CHUNK_ENCODING, body)
  ELSE chunk_append(r.rest, body \o SubSeq(r.data, 1, chunk_size_int), too_large)

\* Lines 304-342: the size is checked and the data read.
chunk_size(rest, size, body, too_large) ==
  IF ~size.ok THEN chunk_error(BAD_CHUNK_ENCODING, body)
  ELSE IF size.value = 0
  THEN [kind |-> "complete", code |-> << >>, body |-> body, rest |-> rest]
  ELSE IF size.value > MAX_BODY_SIZE THEN chunk_error(too_large, body)
  ELSE chunk_data(stream_read(rest, size.value + 2), size.value, body, too_large)

\* Lines 284-302: the chunk-size line.
chunk_line(rest, chunk_size_line, body, too_large) ==
  IF chunk_size_line = << >>
  THEN chunk_error(BAD_CHUNK_ENCODING, body)
  ELSE chunk_size(rest, parse_chunk_size(chunk_size_line), body, too_large)

next_chunk(g, body, too_large) ==
  IF ~g.ok THEN chunk_more(body)
  ELSE chunk_line(g.rest, strip_cr(g.line), body, too_large)

chunk_loop(stream, body, too_large) == next_chunk(getline(stream), body, too_large)

\* Lines 371-414 and 540-583: the trailer lines after the zero chunk.  TRUE
\* unless a line before the empty line has no colon.
RECURSIVE trailers_valid(_)
\* A check that lets a trailer line without a colon pass.
trailer_line_any(rest, trailer_line) ==
  IF trailer_line = << >> THEN TRUE ELSE trailers_valid(rest)

trailer_line_valid(rest, trailer_line) ==
  IF trailer_line = << >> THEN TRUE
  ELSE IF find_char(trailer_line, ":") = npos THEN FALSE
  ELSE trailers_valid(rest)

next_trailer(g) == IF ~g.ok THEN TRUE ELSE trailer_line_valid(g.rest, strip_cr(g.line))

trailers_valid(stream) == next_trailer(getline(stream))

\* Lines 363-441: what handle_chunked_encoding does with the outcome c of
\* its chunk loop.
end_chunked_encoding(map, socket_key, c, method, uri, version, headers, FD) ==
  IF c.kind = "error"
  THEN Returned(http_handled_data(TRUE, c.code, uri, version, headers, << >>), map)
  ELSE IF c.kind = "complete"
  THEN IF trailers_valid(c.rest)
       THEN Returned(http_handled_data(TRUE, method, uri, version, headers, c.body), map)
       ELSE Returned(http_handled_data(TRUE, BAD_TRAILER_HEADERS, uri, version, headers,
                                       << >>), map)
  ELSE Returned(http_handled_data(FALSE, method, uri, version, headers, c.body),
                map_put(map, socket_key,
                        http_data_under_handling(socket_key, "CHUNKED", 0, method, uri,
                                                 version, headers, c.body, FD)))

\* Lines 269-441.
handle_chunked_encoding(map, socket_key, request_stream, method, uri, version, headers, FD) ==
  end_chunked_encoding(map, socket_key,
                       chunk_loop(request_stream, << >>, BAD_CONTENT_TOO_LARGE),
                       method, uri, version, headers, FD)

\* Lines 532-591: what continue_chunked_handling does with the outcome c of
\* its chunk loop.  data is the entry of the map, changed in place: what the
\* loop appended to data.body stays in the map whatever is returned.
end_continue_chunked(map, data, c) ==
  IF c.kind = "error"
  THEN Returned(http_handled_data(TRUE, c.code, data.uri, data.version, data.headers, << >>),
                map_put(map, data.socket_key, [data EXCEPT !.body = c.body]))
  ELSE IF c.kind = "complete"
  THEN IF trailers_valid(c.rest)
       THEN Returned(http_handled_data(TRUE, data.method, data.uri, data.version,
                                       data.headers, c.body),
                     map_erase(map, data.socket_key))
       ELSE Returned(http_handled_data(TRUE, BAD_TRAILER_HEADERS, data.uri, data.version,
                                       data.headers, << >>),
                     map_put(map, data.socket_key, [data EXCEPT !.body = c.body]))
  ELSE Returned(http_handled_data(FALSE, data.method, data.uri, data.version,
                                  data.headers, c.body),
                map_put(map, data.socket_key, [data EXCEPT !.body = c.body]))

\* Lines 444-592.
continue_chunked_handling(map, data, message) ==
  end_continue_chunked(map, data, chunk_loop(message, data.body, CONTENT_TOO_LARGE))

\* Lines 602-621 without the erase of line 609: the entry of a completed
\* request would stay in the map.
check_content_length_keeping(map, data, updated) ==
  IF Len(updated.body) > MAX_BODY_SIZE
  THEN Returned(http_handled_data(TRUE, BAD_CONTENT_TOO_LARGE, data.uri, data.version,
                                  data.headers, << >>),
                map_put(map, data.socket_key, updated))
  ELSE IF Len(updated.body) = data.content_length
  THEN Returned(http_handled_data(TRUE, data.method, data.uri, data.version,
                                  data.headers, updated.body),
                map_put(map, data.socket_key, updated))
  ELSE IF Len(updated.body) > data.content_length \/ Len(updated.body) > MAX_BODY_SIZE
  THEN Returned(http_handled_data(TRUE, BAD_CONTENT_TOO_LARGE, data.uri, data.version,
                                  data.headers, << >>),
                map_put(map, data.socket_key, updated))
  ELSE Returned(http_handled_data(FALSE, data.method, data.uri, data.version, << >>, << >>),
                map_put(map, data.socket_key, updated))

\* Lines 602-621, updated being the entry after data.body += body.
check_content_length(map, data, updated) ==
  IF Len(updated.body) > MAX_BODY_SIZE
  THEN Returned(http_handled_data(TRUE, BAD_CONTENT_TOO_LARGE, data.uri, data.version,
                                  data.headers, << >>),
                map_put(map, data.socket_key, updated))
  ELSE IF Len(updated.body) = data.content_length
  THEN Returned(http_handled_data(TRUE, data.method, data.uri, data.version,
                                  data.headers, updated.body),
                map_erase(map, data.socket_key))
  ELSE IF Len(updated.body) > data.content_length \/ Len(updated.body) > MAX_BODY_SIZE
  THEN Returned(http_handled_data(TRUE, BAD_CONTENT_TOO_LARGE, data.uri, data.version,
                                  data.headers, << >>),
                map_put(map, data.socket_key, updated))
  ELSE Returned(http_handled_data(FALSE, data.method, data.uri, data.version, << >>, << >>),
                map_put(map, data.socket_key, updated))

\* A continuation that puts the new bytes before the stored ones: the body
\* would not be the bytes in the order received.
continue_content_length_prepending(map, data, message) ==
  check_content_length(map, data, [data EXCEPT !.body = message \o data.body])

\* Lines 595-622.
continue_content_length_handling(map, data, message) ==
  check_content_length(map, data, [data EXCEPT !.body = data.body \o message])

\* Lines 35-47 (last_activity aside).
continue_handling(map, data, message) ==
  IF data.type = "CHUNKED"
  THEN continue_chunked_handling(map, data, message)
  ELSE continue_content_length_handling(map, data, message)

\* Lines 91-92: the declared length is converted and the body handled.
read_content_length(map, socket_key, rl, ph, parsed, FD) ==
  IF parsed.threw THEN Threw(map)
  ELSE handle_content_length(map, socket_key, ph.rest, rl.method, rl.uri, rl.version,
                             ph.headers, parsed.value, FD)

\* Lines 71-100: the framing headers are looked up and the body handled.
select_framing(map, socket_key, rl, ph, has_content_length, has_transfer_encoding, FD) ==
  IF multimap_count(ph.headers, CONTENT_LENGTH) > 1
     \/ (has_content_length /\ has_transfer_encoding)
  THEN Returned(http_handled_data(TRUE, BAD_REPEATED_LENGTH_OR_TRANSFER_ENCODING_OR_BOTH,
                                  rl.uri, rl.version, ph.headers, << >>), map)
  ELSE IF has_content_length
  THEN read_content_length(map, socket_key, rl, ph,
                           stoull(multimap_find_value(ph.headers, CONTENT_LENGTH)), FD)
  ELSE IF has_transfer_encoding
  THEN handle_chunked_encoding(map, socket_key, ph.rest, rl.method, rl.uri, rl.version,
                               ph.headers, FD)
  ELSE Returned(http_handled_data(TRUE, rl.method, rl.uri, rl.version, ph.headers, << >>),
                map)

\* Lines 64-79: the headers are parsed and the framing headers looked up.
after_headers(map, socket_key, rl, ph, FD) ==
  IF ~ph.valid
  THEN Returned(http_handled_data(TRUE, BAD_HEADERS_TOO_LARGE, rl.uri, rl.version, << >>,
                                  << >>), map)
  ELSE select_framing(map, socket_key, rl, ph,
                      multimap_count(ph.headers, CONTENT_LENGTH) > 0,
                      multimap_count(ph.headers, TRANSFER_ENCODING) > 0
                        /\ contains_chunked(multimap_equal_range(ph.headers, TRANSFER_ENCODING)),
                      FD)

\* Lines 57-65: the request line is checked and the headers parsed.
after_request_line(map, socket_key, rl, FD) ==
  IF ~rl.valid
  THEN Returned(http_handled_data(TRUE, rl.error_message, rl.uri, rl.version, << >>, << >>),
                map)
  ELSE after_headers(map, socket_key, rl, parse_headers(rl.rest), FD)

\* Lines 49-101.
start_handling(map, socket_key, message, FD) ==
  after_request_line(map, socket_key, parse_request_line(message), FD)

\* Lines 22-33.
handle(map, socket_key, message, FD) ==
  IF socket_key \in DOMAIN map
  THEN continue_handling(map, map[socket_key], message)
  ELSE start_handling(map, socket_key, message, FD)

(***************************************************************************)
(* The byte streams of the clients                                         *)
(***************************************************************************)
\* The largest Content-Length a client of the model declares, the longest
\* body it sends after the headers of such a request, and the number of
\* chunks of its chunked bodies.
MaxDeclared == 4

MaxBodyLen == 5

MaxChunks == 2

CRLF == << CR, LF >>

Decimal(n) == << ASCII[Ord["0"] + n] >>

BodyBytes == << "a", "b", "c", "d", "e", "f", "g", "h", "i", "j", "k", "l" >>

Body(k) == SubSeq(BodyBytes, 1, k)

RequestLine == << "G", SP, "/", SP, "H" >> \o CRLF

NameContentLength == << "C", "o", "n", "t", "e", "n", "t", "-", "L", "e", "n", "g", "t", "h" >>

NameTransferEncoding == << "T", "r", "a", "n", "s", "f", "e", "r", "-", "E", "n", "c", "o", "d", "i", "n", "g" >>

HeaderLine(name, value) == name \o << ":", SP >> \o value \o CRLF

OtherHeader == HeaderLine(<< "X" >>, << "y" >>)

ChunkedHeader == HeaderLine(NameTransferEncoding, chunked)

\* A chunk of n data octets taken from BodyBytes at offset from.
Chunk(from, n) == Decimal(n) \o CRLF \o SubSeq(BodyBytes, from + 1, from + n) \o CRLF

LastChunk == << "0" >> \o CRLF \o CRLF

\* Requests with a Content-Length header: every declared length with every
\* number of body octets (too few, exact, too many).
ContentLengthStreams ==
  { RequestLine \o HeaderLine(NameContentLength, Decimal(n)) \o CRLF \o Body(k) :
      n \in 0..MaxDeclared, k \in 0..MaxBodyLen }

\* Chunked requests of up to MaxChunks chunks whose data is at most room
\* octets in all.
RECURSIVE ChunkSeqs(_, _, _)
ChunkSeqs(from, left, room) ==
  {<< >>} \cup
  (IF left = 0 THEN {}
   ELSE UNION { { Chunk(from, n) \o rest : rest \in ChunkSeqs(from + n, left - 1, room - n) } :
                n \in 1..room })

ChunkedStreams ==
  { RequestLine \o ChunkedHeader \o CRLF \o chunks \o LastChunk :
      chunks \in ChunkSeqs(0, MaxChunks, MAX_BODY_SIZE + 1) }

\* Request lines and header sections of other shapes, without a body.
\*   "G / H\n\n"                       bare LF line ends
\*   "G /\r\n\r\n"                     no version
\*   "\r\nG / H\r\n\r\n"               an empty first line
\*   "G / H z\r\n\r\n"                 a fourth token
\*   "G\t/  H\r\nX: y\r\n\r\n"         tabs and runs of blanks between tokens
\*   "G / H\r\n\r\n", "G / H\r\nX: y\r\n\r\n"
\*   "G / H\r\nX: y\r\nx: z\r\nA: b\r\n\r\n"   a repeated name
\*   "G / H\r\nXy\r\nX: y\r\n\r\n"     a line without a colon
\*   "G / H\r\nX:  \t\r\n\r\n"         a value of blanks only
\*   "G / H\r\nX: \t y \t\r\n\r\n"     a value with blanks around it
PlainStreams ==
  { << "G", SP, "/", SP, "H", LF, LF >>,
    << "G", SP, "/", CR, LF, CR, LF >>,
    CRLF \o RequestLine \o CRLF,
    << "G", SP, "/", SP, "H", SP, "z", CR, LF, CR, LF >>,
    << "G", HT, "/", SP, SP, "H", CR, LF >> \o OtherHeader \o CRLF,
    RequestLine \o CRLF,
    RequestLine \o OtherHeader \o CRLF,
    RequestLine \o OtherHeader \o HeaderLine(<< "x" >>, << "z" >>)
                \o HeaderLine(<< "A" >>, << "b" >>) \o CRLF,
    RequestLine \o << "X", "y" >> \o CRLF \o OtherHeader \o CRLF,
    RequestLine \o << "X", ":", SP, SP, HT, CR, LF >> \o CRLF,
    RequestLine \o << "X", ":", SP, HT, SP, "y", SP, HT, CR, LF >> \o CRLF }

\* Content-Length in other shapes: the name in lower case; the header twice
\* (equal values, either letter case); with a Transfer-Encoding header that
\* names chunked or does not; a value that is no number, is negative, or has
\* text after the digits.
FramingStreams ==
  { RequestLine \o HeaderLine(to_lower_case(NameContentLength), Decimal(2)) \o CRLF \o Body(2),
    RequestLine \o HeaderLine(NameContentLength, Decimal(2))
                \o HeaderLine(NameContentLength, Decimal(2)) \o CRLF \o Body(2),
    RequestLine \o HeaderLine(NameContentLength, Decimal(2))
                \o HeaderLine(to_lower_case(NameContentLength), Decimal(2)) \o CRLF \o Body(2),
    RequestLine \o HeaderLine(NameContentLength, Decimal(2)) \o ChunkedHeader \o CRLF
                \o Chunk(0, 2) \o LastChunk,
    RequestLine \o HeaderLine(to_upper_case(NameTransferEncoding), << "x", "C", "h", "u", "n", "k", "E", "D" >>)
                \o HeaderLine(NameContentLength, Decimal(2)) \o CRLF \o Body(2),
    RequestLine \o HeaderLine(NameContentLength, Decimal(2))
                \o HeaderLine(NameTransferEncoding, << "g", "z", "i", "p" >>) \o CRLF \o Body(2),
    RequestLine \o HeaderLine(NameContentLength, << "x" >>) \o CRLF \o Body(1),
    RequestLine \o HeaderLine(NameContentLength, << "-", "1" >>) \o CRLF \o Body(1),
    RequestLine \o HeaderLine(NameContentLength, << "2", "x" >>) \o CRLF \o Body(2) }

\* Header sections at and over MAX_HEADER_SIZE, alone and together with the
\* framing errors; a bad request line before conflicting framing headers.
LargeHeader == HeaderLine(<< "A", "b", "c", "d", "e", "f", "g", "h", "i", "j" >>, << "k", "l", "m", "n", "o", "p" >>)

LimitStreams ==
  { RequestLine \o ChunkedHeader \o LargeHeader \o CRLF \o Chunk(0, 1) \o LastChunk,
    RequestLine \o ChunkedHeader \o LargeHeader \o OtherHeader \o CRLF
                \o Chunk(0, 1) \o LastChunk,
    RequestLine \o HeaderLine(NameContentLength, Decimal(1)) \o ChunkedHeader \o OtherHeader
                \o CRLF \o Body(1),
    RequestLine \o HeaderLine(NameContentLength, Decimal(1))
                \o HeaderLine(NameContentLength, Decimal(1)) \o LargeHeader \o CRLF \o Body(1),
    << "G", SP, "/", CR, LF >> \o HeaderLine(NameContentLength, Decimal(1)) \o ChunkedHeader \o CRLF \o Body(1),
    << "G", SP, "/", CR, LF >> \o HeaderLine(NameContentLength, Decimal(1))
          \o HeaderLine(NameContentLength, Decimal(1)) \o CRLF \o Body(1) }

\* Chunked bodies of other shapes: a chunk extension; a size with a leading
\* zero; a size beyond MAX_BODY_SIZE in hexadecimal letters; a size that is
\* no hexadecimal number; an empty size line; an empty size before an
\* extension; data not followed by CRLF; trailers, with and without a colon;
\* bare LF line ends; a chunk whose three data octets are "0\r\n".
ChunkedHead == RequestLine \o ChunkedHeader \o CRLF

OddChunkStreams ==
  { ChunkedHead \o << "2", ";", "x", CR, LF, "a", "b", CR, LF >> \o LastChunk,
    ChunkedHead \o << "0", "2", CR, LF, "a", "b", CR, LF >> \o LastChunk,
    ChunkedHead \o << "0", "A", CR, LF, "a", "b", "c", "d", "e", "f", "g", "h", "i", "j", CR,
           LF, "0", CR, LF, CR, LF >>,
    ChunkedHead \o << "g", CR, LF, "a", "b", CR, LF >> \o LastChunk,
    ChunkedHead \o CRLF \o LastChunk,
    ChunkedHead \o << ";", "x", CR, LF, "a", "b", CR, LF >> \o LastChunk,
    ChunkedHead \o << "2", CR, LF, "a", "b", "c", CR, LF >> \o LastChunk,
    ChunkedHead \o << "3", CR, LF, "0", CR, LF, CR, LF >> \o LastChunk,
    ChunkedHead \o Chunk(0, 2) \o << "0", CR, LF, "T", ":", SP, "v", CR, LF, CR, LF >>,
    ChunkedHead \o Chunk(0, 2) \o << "0", CR, LF, "T", "v", CR, LF, CR, LF >>,
    << "G", SP, "/", SP, "H", LF, "T", "r", "a", "n", "s", "f", "e", "r", "-",
           "E", "n", "c", "o", "d", "i", "n", "g", ":", SP, "c", "h", "u", "n",
           "k", "e", "d", LF, LF, "2", LF, "a", "b", CR, LF, "0", LF, LF >> }

Streams ==
  ContentLengthStreams \cup ChunkedStreams \cup PlainStreams \cup FramingStreams
  \cup LimitStreams \cup OddChunkStreams

\* The streams that are one well-formed request within the limits.
ValidRequests ==
  { RequestLine \o HeaderLine(NameContentLength, Decimal(n)) \o CRLF \o Body(n) :
      n \in 0..(IF MaxDeclared < MAX_BODY_SIZE THEN MaxDeclared ELSE MAX_BODY_SIZE) }
  \cup { RequestLine \o ChunkedHeader \o CRLF \o chunks \o LastChunk :
           chunks \in ChunkSeqs(0, MaxChunks, MAX_BODY_SIZE) }
  \cup { RequestLine \o CRLF,
         RequestLine \o OtherHeader \o CRLF,
         RequestLine \o OtherHeader \o HeaderLine(<< "x" >>, << "z" >>)
                     \o HeaderLine(<< "A" >>, << "b" >>) \o CRLF,
         RequestLine \o HeaderLine(to_lower_case(NameContentLength), Decimal(2)) \o CRLF
                     \o Body(2),
         RequestLine \o ChunkedHeader \o LargeHeader \o CRLF \o Chunk(0, 1) \o LastChunk,
         ChunkedHead \o Chunk(0, 2) \o << "0" >> \o CRLF
                     \o HeaderLine(<< "T" >>, << "v" >>) \o CRLF }

(***************************************************************************)
(* The server: connections feeding the handler                             *)
(***************************************************************************)
\* Three connections the server accepts one after another: c2 comes from the
\* address and port c1 came from, c3 from another peer, and accept gives
\* each the lowest free descriptor, the one its predecessor has released.
Connections == {"c1", "c2", "c3"}

FirstConnection == "c1"

\* conn->get_remote_address().to_string() and conn->get_fd().
remote_address == [c \in Connections |-> IF c = "c3" THEN "10.0.0.2:40001" ELSE "10.0.0.1:40001"]

get_fd == [c \in Connections |-> 5]

VARIABLES
  under_handling_data,  \* http_message_handler::under_handling_data
  stream,               \* per connection: the bytes its client sends, in order
  sent,                 \* per connection: how many of them have been delivered
  phase,                \* per connection: "idle", or whether the last call of
                        \* handle was the "first" on the connection or a "later" one
  had_entry,            \* per connection: the last call found an entry in the map
  whole,                \* per connection: the first message held the whole header section
  last,                 \* per connection: what the last call of handle did
  n_complete,           \* per connection: completed results that are not errors
  first_complete,       \* per connection: the first of them
  last_activity         \* per entry of under_handling_data: its last_activity

vars ==
  << under_handling_data, stream, sent, phase, had_entry, whole, last, n_complete,
     first_complete, last_activity >>

ErrorCodes ==
  { BAD_METHOD_OR_URI_OR_VERSION, BAD_HEADERS_TOO_LARGE,
    BAD_REPEATED_LENGTH_OR_TRANSFER_ENCODING_OR_BOTH, BAD_CONTENT_TOO_LARGE,
    BAD_CHUNK_ENCODING, BAD_TRAILER_HEADERS }

\* How a caller reads a result: an error is a completed result whose method
\* field holds a code ("BAD_..." or "CONTENT_TOO_LARGE").
IsFatal(o) == ~o.threw /\ o.ret.completed /\ o.ret.method \in ErrorCodes \cup {CONTENT_TOO_LARGE}

IsComplete(o) ==
  ~o.threw /\ o.ret.completed /\ o.ret.method \notin ErrorCodes \cup {CONTENT_TOO_LARGE}

IsNeedMore(o) == ~o.threw /\ ~o.ret.completed

NoResult == [threw |-> TRUE, ret |-> Threw(<< >>).ret]

\* The 1-based position of the LF that ends the empty line closing the
\* header section of s (the first empty line after the request line), or 0.
HeaderEnd(s) ==
  LET Ends == { p \in 2..Len(s) :
                  /\ s[p] = LF
                  /\ \/ s[p - 1] = LF
                     \/ p > 2 /\ s[p - 1] = CR /\ s[p - 2] = LF }
  IN  IF Ends = {} THEN 0 ELSE CHOOSE p \in Ends : \A q \in Ends : p <= q

(***************************************************************************)
(* http_server::on_message_received (src/src/http_server.cpp): the         *)
(* request it builds from one message                                      *)
(***************************************************************************)
INT_MAX == 2147483647

stoi_value(negative, n, v) ==
  IF n = 0 \/ v > INT_MAX
  THEN [threw |-> TRUE, value |-> 0]
  ELSE [threw |-> FALSE, value |-> IF negative THEN 0 - v ELSE v]

stoi_digits(negative, digits) == stoi_value(negative, Len(digits), decimal_value(digits, 0))

stoi_unsigned(negative, body) == stoi_digits(negative, SubSeq(body, 1, digit_prefix_len(body)))

stoi_signed(skipped) ==
  IF skipped # << >> /\ Head(skipped) \in {"+", "-"}
  THEN stoi_unsigned(Head(skipped) = "-", Tail(skipped))
  ELSE stoi_unsigned(FALSE, skipped)

\* std::stoi(s): skips leading whitespace, takes an optional sign and the
\* decimal digits that follow, ignores what comes after them.  No digit:
\* std::invalid_argument; a value beyond int: std::out_of_range.
stoi(s) == stoi_signed(skip_whitespace(s))

\* Lines 57-58: request_line >> method >> uri >> version.  A failed
\* extraction leaves its string and the ones after it empty.
request_line_version(method, uri, third) ==
  [method |-> method, uri |-> uri, version |-> third.token]

request_line_uri(method, second) ==
  request_line_version(method, second.token, extract_token(second.rest))

request_line_method(first) == request_line_uri(first.token, extract_token(first.rest))

request_line_tokens(line) == request_line_method(extract_token(line))

\* Lines 48-59: the first line, when there is one and it is not empty.
server_request_line(got) ==
  IF got.ok /\ got.line # << >>
  THEN request_line_tokens(strip_cr(got.line))
  ELSE [method |-> << >>, uri |-> << >>, version |-> << >>]

\* Lines 80-98: the header of a line with a colon at colon_pos, stored under
\* its name as written.
server_header_emplace(headers, line, colon_pos) ==
  multimap_emplace(headers, substr(line, 0, colon_pos),
                   trim_header_value(substr_from(line, colon_pos + 1)))

\* Lines 77-99: a line without a colon is skipped.
server_header_at(headers, line, colon_pos) ==
  IF colon_pos # npos THEN server_header_emplace(headers, line, colon_pos) ELSE headers

server_header_line(headers, line) == server_header_at(headers, line, find_char(line, ":"))

\* Lines 62-100: header lines up to the first empty line or the end of the
\* message; what follows the empty line is left in the stream.
RECURSIVE server_headers_loop(_, _)
server_headers_next(headers, got, line) ==
  IF line = << >>
  THEN [headers |-> headers, rest |-> got.rest]
  ELSE server_headers_loop(server_header_line(headers, line), got.rest)

server_headers_got(headers, got) ==
  IF ~got.ok
  THEN [headers |-> headers, rest |-> << >>]
  ELSE server_headers_next(headers, got, strip_cr(got.line))

server_headers_loop(headers, stream_in) == server_headers_got(headers, getline(stream_in))

\* Lines 103-108: headers.find("Content-Length"), the name compared as
\* written; the value through std::stoi.
server_content_length(headers) ==
  IF multimap_count(headers, NameContentLength) > 0
  THEN stoi(multimap_find_value(headers, NameContentLength))
  ELSE [threw |-> FALSE, value |-> 0]

\* http_request::http_request: the headers are stored again under their
\* upper-cased names, taken in the order the given multimap holds them.
RECURSIVE rekey_headers(_, _)
rekey_headers(headers, acc) ==
  IF headers = << >> THEN acc
  ELSE rekey_headers(Tail(headers),
                     multimap_emplace(acc, to_upper_case(Head(headers).name), Head(headers).value))

http_request(method, uri, version, headers, body, client_socket) ==
  [method |-> method, uri |-> uri, version |-> version,
   headers |-> rekey_headers(headers, << >>), body |-> body, client_socket |-> client_socket]

\* http_request::get_header.
get_header(request, name) == multimap_equal_range(request.headers, to_upper_case(name))

\* Lines 110-130: the rest of the message is the body; the request is
\* refused only when the body is longer than the declared length.
server_build_request(line, parsed, content_length, sock_ptr) ==
  IF content_length.threw \/ content_length.value < Len(parsed.rest)
  THEN [threw |-> TRUE]
  ELSE [threw |-> FALSE,
        request |-> http_request(line.method, line.uri, line.version, parsed.headers,
                                 parsed.rest, sock_ptr)]

server_with_headers(line, parsed, sock_ptr) ==
  server_build_request(line, parsed, server_content_length(parsed.headers), sock_ptr)

server_after_request_line(got, sock_ptr) ==
  server_with_headers(server_request_line(got),
                      server_headers_loop(<< >>, IF got.ok THEN got.rest ELSE << >>), sock_ptr)

\* Lines 37-130 for a message that is not empty.
server_parse(message, sock_ptr) == server_after_request_line(getline(message), sock_ptr)

(***************************************************************************)
(* http_response: the fields a handler sets and to_string()                *)
(* (src/src/http_response.cpp)                                             *)
(***************************************************************************)
\* std::multimap::insert of a pair: like emplace, after the elements whose
\* name is not greater.
multimap_insert(m, name, value) == multimap_emplace(m, name, value)

\* operator<< of an int: its decimal digits, a minus sign first when it is
\* negative.
RECURSIVE ostream_digits(_)
ostream_digits(n) == IF n < 10 THEN Decimal(n) ELSE ostream_digits(n \div 10) \o Decimal(n % 10)

ostream_int(n) == IF n < 0 THEN << "-" >> \o ostream_digits(0 - n) ELSE ostream_digits(n)

\* get_current_date: std::time formatted by strftime.  The clock of the
\* model has two instants and the format keeps its last field and " GMT".
Clock == {0, 1}

get_current_date(now) == Decimal(now) \o << SP, "G", "M", "T" >>

\* How many headers and trailers a response is given in all.
MaxAdded == 3

\* The header and trailer names and values, the bodies, the versions and
\* the statuses handlers pass.
FieldNames == { << "b" >>, << "A" >> }

FieldValues == { << "v" >>, << SP, "w", SP >> }

ResponseBodies == { << >>, << "t", ":", SP, "u", CR, LF >> }

ResponseVersions == { << "H", "/", "1" >>, << "H", "/", "2" >> }

Statuses == { [code |-> 404, message |-> << "N", SP, "F" >>] }

\* The headers the constructor is given.
ConstructorHeaders == { << >>, << [name |-> << "c" >>, value |-> << "v" >>] >> }

VARIABLES
  http_response_object,  \* version, status_code, status_message, headers, trailers, body
  added,                 \* the headers and the trailers as callers passed them, in call order
  serialized             \* the last to_string(): its text and the instant it read the clock at

builder_vars == << http_response_object, added, serialized >>

NotSerialized == [made |-> FALSE, text |-> << >>, now |-> 0]

\* Lines 12-25 with the defaults of http_response.hpp 30-36.
http_response_new(version, headers) ==
  [version |-> version, status_code |-> 200, status_message |-> << "O", "K" >>,
   headers |-> rekey_headers(headers, << >>), trailers |-> << >>, body |-> << >>]

\* The builder before any response was constructed by this component.
BuilderIdle ==
  /\ http_response_object = http_response_new(<< >>, << >>)
  /\ added = [headers |-> << >>, trailers |-> << >>]
  /\ serialized = NotSerialized

BuilderInit ==
  /\ \E version \in ResponseVersions : \E headers \in ConstructorHeaders :
       /\ http_response_object = http_response_new(version, headers)
       /\ added = [headers |-> headers, trailers |-> << >>]
  /\ serialized = NotSerialized

\* Lines 65-68 and 74-77: one line per element, in container order.
RECURSIVE field_lines(_)
field_lines(m) ==
  IF m = << >> THEN << >>
  ELSE to_upper_case(Head(m).name) \o << ":", SP >> \o Head(m).value \o CRLF
       \o field_lines(Tail(m))

\* Lines 69-73 without the else branch.
body_part_no_else(body) == IF Len(body) # 0 THEN CRLF \o body ELSE << >>

\* Lines 69-73.
body_part(body) == IF Len(body) # 0 THEN CRLF \o body ELSE CRLF

\* Lines 60-80.
to_string(r, now) ==
  r.version \o << SP >> \o ostream_int(r.status_code) \o << SP >> \o r.status_message \o CRLF
  \o << "D", "a", "t", "e", ":", SP >> \o get_current_date(now) \o CRLF
  \o field_lines(r.headers)
  \o body_part(r.body)
  \o field_lines(r.trailers)

Added == Len(added.headers) + Len(added.trailers)

\* Lines 87-91.
set_status(status_code, status_message) ==
  /\ http_response_object' =
       [http_response_object EXCEPT !.status_code = status_code,
                                    !.status_message = status_message]
  /\ serialized' = NotSerialized
  /\ UNCHANGED added

\* Lines 93-96.
set_version(version) ==
  /\ http_response_object' = [http_response_object EXCEPT !.version = version]
  /\ serialized' = NotSerialized
  /\ UNCHANGED added

\* Lines 82-85.
set_body(body) ==
  /\ http_response_object' = [http_response_object EXCEPT !.body = body]
  /\ serialized' = NotSerialized
  /\ UNCHANGED added

\* Lines 104-107.
add_header(name, value) ==
  /\ Added < MaxAdded
  /\ http_response_object' =
       [http_response_object EXCEPT !.headers = multimap_insert(@, to_upper_case(name), value)]
  /\ added' = [added EXCEPT !.headers = Append(@, [name |-> name, value |-> value])]
  /\ serialized' = NotSerialized

\* Lines 98-102.
add_trailer(name, value) ==
  /\ Added < MaxAdded
  /\ http_response_object' =
       [http_response_object EXCEPT !.trailers = multimap_insert(@, to_upper_case(name), value)]
  /\ added' = [added EXCEPT !.trailers = Append(@, [name |-> name, value |-> value])]
  /\ serialized' = NotSerialized

\* A call of to_string() at an instant of the clock.
call_to_string(now) ==
  /\ serialized' = [made |-> TRUE, text |-> to_string(http_response_object, now), now |-> now]
  /\ UNCHANGED << http_response_object, added >>

(***************************************************************************)
(* http_message_handler::cleanup_idle_connections: the clock, the          *)
(* connections and the mutex of the handler                                *)
(***************************************************************************)
\* config::MAX_IDLE_TIME_SECONDS.
MAX_IDLE_TIME_SECONDS == 5

\* The clock is read every TickSeconds seconds, up to MaxNow.
TickSeconds == 3

Ticks == {TickSeconds}

MaxNow == 6

VARIABLES
  now,               \* std::chrono::steady_clock::now(), in seconds
  conn_activity,     \* per connection: when it was accepted or last sent bytes
  open,              \* per connection: it is open
  closed_callbacks,  \* per connection: calls of the close_connection closure for its descriptor
  mtx,               \* http_message_handler::mtx: "free", or the function that holds it
  pending,           \* the connections the server has not accepted yet
  cleanup            \* cleanup_idle_connections: where it is, its now, the keys it has
                     \* still to visit, the key and FD of the entry it found idle

sweep_vars == << now, conn_activity, open, closed_callbacks, mtx, pending, cleanup >>

NoCleanup == [pc |-> "idle", now |-> 0, it |-> {}, key |-> "", FD |-> 0 - 1]

SweepIdle ==
  /\ now = 0
  /\ conn_activity = [c \in Connections |-> 0]
  /\ open = [c \in Connections |-> c = FirstConnection]
  /\ pending = Connections \ {FirstConnection}
  /\ closed_callbacks = [c \in Connections |-> 0]
  /\ mtx = "free"
  /\ cleanup = NoCleanup

(***************************************************************************)
(* Threads that call tcp_server::close_connection                          *)
(***************************************************************************)
\* The thread of run() and a thread of the application's handlers.
Threads == {"reactor", "handler"}

\* How many calls of close_connection a thread makes.
MaxCloseCalls == 1

VARIABLES
  closers  \* per thread: where it is in close_connection, on which socket, its calls so far

race_vars == << closers >>

NoCloser == [pc |-> "idle", sock |-> "nullptr", calls |-> 0]

RaceIdle == closers = [t \in Threads |-> NoCloser]

(***************************************************************************)
(* socket_address: the OS address struct built from (ip, port, family)     *)
(***************************************************************************)
\* <sys/socket.h>: the two families hamza::family allows.
AF_INET == 2

AF_INET6 == 10

Families == {AF_INET, AF_INET6}

\* Memory is a sequence of bytes; a struct is the bytes of its object.
\* std::make_shared<T>() value-initializes: every byte is 0.
\*   sockaddr_in  (16 bytes): sin_family 0-1, sin_port 2-3, sin_addr 4-7,
\*                            sin_zero 8-15
\*   sockaddr_in6 (28 bytes): sin6_family 0-1, sin6_port 2-3,
\*                            sin6_flowinfo 4-7, sin6_addr 8-23,
\*                            sin6_scope_id 24-27
make_shared_sockaddr_in == [i \in 1..16 |-> 0]

make_shared_sockaddr_in6 == [i \in 1..28 |-> 0]

sin_addr_offset == 4

sin6_addr_offset == 8

\* A store of bytes at an offset of an object: the bytes that fall inside
\* the object are written; overflow says some fell outside it.
store(mem, offset, bytes) ==
  [mem |-> [i \in 1..Len(mem) |->
              IF i > offset /\ i <= offset + Len(bytes) THEN bytes[i - offset] ELSE mem[i]],
   overflow |-> offset + Len(bytes) > Len(mem)]

\* A 16-bit value as it lies in memory on a little-endian host.
host_u16(v) == << v % 256, v \div 256 >>

\* utilities.cpp, convert_host_to_network_order: htons on a little-endian
\* host swaps the two bytes.
convert_host_to_network_order(port) == (port % 256) * 256 + (port \div 256)

\* The parts of s between the separators.
RECURSIVE split(_, _)
split(s, sep) ==
  IF \A i \in 1..Len(s) : s[i] # sep THEN << s >>
  ELSE LET i == CHOOSE k \in 1..Len(s) : s[k] = sep /\ \A j \in 1..(k - 1) : s[j] # sep
       IN  << SubSeq(s, 1, i - 1) >> \o split(SubSeq(s, i + 1, Len(s)), sep)

\* inet_pton(AF_INET, ...): four decimal numbers of one to three digits, no
\* leading zero before another digit, each at most 255, with dots between.
dotted_part_ok(p) ==
  /\ Len(p) \in 1..3
  /\ \A i \in 1..Len(p) : isdigit(p[i])
  /\ Len(p) > 1 => p[1] # "0"
  /\ decimal_value(p, 0) <= 255

inet_pton4(text) ==
  LET parts == split(text, ".")
  IN  IF Len(parts) = 4 /\ \A i \in 1..4 : dotted_part_ok(parts[i])
      THEN [ok |-> TRUE, bytes |-> [i \in 1..4 |-> decimal_value(parts[i], 0)]]
      ELSE [ok |-> FALSE, bytes |-> << >>]

\* inet_pton(AF_INET6, ...), for texts without an embedded IPv4 address:
\* groups of one to four hexadecimal digits with colons between, eight of
\* them, or fewer with one "::" that stands for the missing zero groups.
hex_groups(s) == IF s = << >> THEN << >> ELSE split(s, ":")

hex_group_ok(g) == Len(g) \in 1..4 /\ \A i \in 1..Len(g) : isxdigit(g[i])

RECURSIVE group_bytes(_)
group_bytes(groups) ==
  IF groups = << >> THEN << >>
  ELSE LET v == hex_value(groups[1], 0)
       IN  << v \div 256, v % 256 >> \o group_bytes(Tail(groups))

double_colons(s) == {i \in 1..(Len(s) - 1) : s[i] = ":" /\ s[i + 1] = ":"}

inet_pton6(text) ==
  LET at == double_colons(text)
      bad == [ok |-> FALSE, bytes |-> << >>]
  IN  IF at = {}
      THEN LET groups == hex_groups(text)
           IN  IF Len(groups) = 8 /\ \A i \in 1..8 : hex_group_ok(groups[i])
               THEN [ok |-> TRUE, bytes |-> group_bytes(groups)]
               ELSE bad
      ELSE IF Cardinality(at) > 1 THEN bad
      ELSE LET i == CHOOSE k \in at : TRUE
               left == hex_groups(SubSeq(text, 1, i - 1))
               right == hex_groups(SubSeq(text, i + 2, Len(text)))
               zeros == [k \in 1..(2 * (8 - Len(left) - Len(right))) |-> 0]
           IN  IF /\ Len(left) + Len(right) <= 7
                  /\ \A k \in 1..Len(left) : hex_group_ok(left[k])
                  /\ \A k \in 1..Len(right) : hex_group_ok(right[k])
               THEN [ok |-> TRUE, bytes |-> group_bytes(left) \o zeros \o group_bytes(right)]
               ELSE bad

inet_pton(af, text) == IF af = AF_INET THEN inet_pton4(text) ELSE inet_pton6(text)

\* utilities.cpp, convert_ip_address_to_network_order (lines 42-43):
\* inet_pton writes the address at the place it is given, 4 bytes for
\* AF_INET and 16 for AF_INET6, and writes nothing when the text is not an
\* address of the family.  Its return value is not looked at.
convert_ip_address_to_network_order(family_ip, address, mem, offset) ==
  LET parsed == inet_pton(family_ip, address)
  IN  IF parsed.ok THEN store(mem, offset, parsed.bytes) ELSE [mem |-> mem, overflow |-> FALSE]

\* The family and the port of a fresh struct (lines 88-89, 98-99).
family_and_port(mem, port_id, family_id) ==
  store(store(mem, 0, host_u16(family_id)).mem, 2,
        host_u16(convert_host_to_network_order(port_id))).mem

\* socket_address.cpp, handle_ipv4 (lines 85-93): a sockaddr_in, whatever
\* the family.
handle_ipv4(address, port_id, family_id) ==
  convert_ip_address_to_network_order(
    family_id, address, family_and_port(make_shared_sockaddr_in, port_id, family_id),
    sin_addr_offset)

\* handle_ipv6 (lines 95-103): a sockaddr_in6, whatever the family.
handle_ipv6(address, port_id, family_id) ==
  convert_ip_address_to_network_order(
    family_id, address, family_and_port(make_shared_sockaddr_in6, port_id, family_id),
    sin6_addr_offset)

NotConstructed ==
  [state |-> "none", address |-> << >>, port_id |-> 0, family_id |-> 0, addr |-> << >>]

\* socket_address::socket_address(address, port, family), lines 12-17:
\* handle_ipv4 and then handle_ipv6 are both called, the struct of the
\* second replaces that of the first.  A store that handle_ipv4 makes
\* outside its sockaddr_in is undefined: the process is aborted, or it goes
\* on.
socket_address(address, port_id, family_id, outcome) ==
  IF handle_ipv4(address, port_id, family_id).overflow /\ outcome = "abort"
  THEN [NotConstructed EXCEPT !.state = "aborted"]
  ELSE [state |-> "constructed", address |-> address, port_id |-> port_id,
        family_id |-> family_id, addr |-> handle_ipv6(address, port_id, family_id).mem]

\* get_sock_addr_len, lines 67-78.
get_sock_addr_len(object) ==
  IF object.family_id = AF_INET THEN Len(make_shared_sockaddr_in)
  ELSE IF object.family_id = AF_INET6 THEN Len(make_shared_sockaddr_in6)
  ELSE 0

\* The addresses, well formed and not, and the ports the model constructs
\* socket addresses from.
IpTexts ==
  { << "1", "2", "7", ".", "0", ".", "0", ".", "1" >>,
    << "1", "0", ".", "0", ".", "0", ".", "2" >>,
    << "2", "5", "6", ".", "0", ".", "0", ".", "1" >>,
    << "1", ".", "2", ".", "3" >>,
    << ":", ":", "1" >>,
    << "f", "e", "8", "0", ":", ":", "1" >>,
    << "1", ":", "2", ":", "3", ":", "4", ":", "5", ":", "6", ":", "7", ":", "8" >>,
    << "b", "a", "d" >>,
    << >> }

Ports == {0, 80, 8080, 65535}

VARIABLES
  address_input,          \* the (ip, port, family) a socket_address is constructed from
  socket_address_object   \* the socket_address, once constructed

address_vars == << address_input, socket_address_object >>

AddressIdle ==
  /\ address_input = [ip |-> << >>, port |-> 0, family |-> AF_INET]
  /\ socket_address_object = NotConstructed

(***************************************************************************)
(* clients_container::for_each, step by step                               *)
(***************************************************************************)
\* How many times the container is changed while for_each runs.
MaxContainerOps == 2

VARIABLES
  container_mtx,   \* clients_container::mtx: "free", or the function that holds it
  for_each_call,   \* for_each: where it is, its copy, the index it is at, the sockets
                   \* func was called with, and the container as it was at the copy
  container_ops    \* changes of the container made so far

container_vars == << container_mtx, for_each_call, container_ops >>

NoForEach == [pc |-> "idle", copy |-> << >>, i |-> 0, visited |-> << >>, snapshot |-> << >>]

ContainerIdle ==
  /\ container_mtx = "free"
  /\ for_each_call = NoForEach
  /\ container_ops = 0

(***************************************************************************)
(* tcp_server / http_server: accepted sockets, the client table, and the   *)
(* request handler's calls on the request and the response                 *)
(***************************************************************************)
\* The socket objects the server can accept, and a null shared_ptr.
Sockets == {"s1", "s2"}

nullptr == "nullptr"

INVALID_SOCKET_VALUE == 0 - 1

\* accept() hands out the lowest descriptor that is not open.
FirstDescriptor == 5

Descriptors == FirstDescriptor..(FirstDescriptor + Cardinality(Sockets) - 1)

\* The listening socket is made in the constructor, before any client is
\* accepted: it has the descriptor below the first client's.
server_socket_fd == FirstDescriptor - 1

\* select_server::max_fd.  select_server::init sets it to the descriptor of
\* the listening socket (line 11); set_max_fd has no other caller (add_fd
\* and remove_fd leave it alone, clients_container::max is never called), so
\* it has this value as long as the server lives.
max_fd == server_socket_fd

\* How many calls a request handler makes on its request and response
\* before it returns.
MaxCalls == 2

\* How many requests the server hands to the request handler in a run.
MaxRequests == 2

VARIABLES
  run_state,         \* tcp_server: "running", "stopping" (stop() was called), "stopped"
  crashed,           \* the process was aborted
  accepted,          \* the sockets accept() has returned
  fd,                \* per socket: socket::fd, INVALID_SOCKET_VALUE once invalidated
  clients,           \* tcp_server::clients, a vector of sockets
  master_fds,        \* select_server::master_fds (the client descriptors in it)
  close_calls,       \* per socket: calls of close_socket on its descriptor
  disconnect_calls,  \* per socket: calls of on_client_disconnect
  written,           \* per socket: responses written to its descriptor
  handling,          \* the socket whose request_callback is running, or nullptr
  message,           \* the message that request was built from
  request,           \* the http_request passed to request_callback
  response,          \* the response passed to it: the calls made on it so far
  looked_up,         \* the last get_header call: name, values, on a cleared request or not
  calls,             \* calls the running handler has made
  served,            \* requests handed to request_callback so far
  stop_called,       \* stop() has been called
  listening,         \* tcp_server::server_socket is open
  stopped_calls,     \* calls of on_server_stopped
  request_callback_set,  \* http_server::request_callback holds a function
  event,             \* what the last iteration of the loop of run() met, and on which socket
  reported           \* that iteration called on_exception

server_vars ==
  << run_state, crashed, accepted, fd, clients, master_fds, close_calls, disconnect_calls,
     written, handling, message, request, response, looked_up, calls, served, stop_called,
     listening, stopped_calls, request_callback_set, event, reported >>

\* What is set up before the loop runs and what only its end changes.
loop_ends == << stop_called, listening, stopped_calls, request_callback_set >>

all_vars ==
  << vars, server_vars, builder_vars, sweep_vars, race_vars, address_vars, container_vars >>

\* What the server leaves alone, and what the message handler does.
outside_server == << vars, builder_vars, sweep_vars, race_vars, address_vars, container_vars >>

outside_handler ==
  << server_vars, builder_vars, sweep_vars, race_vars, address_vars, container_vars >>

outside_handler_but_sweep ==
  << server_vars, builder_vars, race_vars, address_vars, container_vars >>

NoRequest == http_request(<< >>, << >>, << >>, << >>, << >>, nullptr)

\* http_response as the handler sees it: wrapped says the handler holds it
\* inside a web_response, did_end is web_response::did_end; the counters
\* record the handler's calls of end(), the calls of the close_connection
\* closure they led to, the calls of send(), and the send() calls made
\* after an end().
NoResponse ==
  [wrapped |-> FALSE, did_end |-> FALSE, end_calls |-> 0, closes |-> 0, send_calls |-> 0,
   late_sends |-> 0]

NoLookup == [name |-> << >>, values |-> << >>, cleared |-> FALSE]

NoEvent == [kind |-> "none", sock |-> nullptr]

ServerInit ==
  /\ run_state = "constructed"
  /\ crashed = FALSE
  /\ accepted = {}
  /\ fd = [s \in Sockets |-> INVALID_SOCKET_VALUE]
  /\ clients = << >>
  /\ master_fds = {}
  /\ close_calls = [s \in Sockets |-> 0]
  /\ disconnect_calls = [s \in Sockets |-> 0]
  /\ written = [s \in Sockets |-> 0]
  /\ handling = nullptr
  /\ message = << >>
  /\ request = NoRequest
  /\ response = NoResponse
  /\ looked_up = NoLookup
  /\ calls = 0
  /\ served = 0
  /\ stop_called = FALSE
  /\ listening = TRUE
  /\ stopped_calls = 0
  /\ request_callback_set = TRUE
  /\ event = NoEvent
  /\ reported = FALSE

\* The server after construction: run() has not been called, and the
\* application has set a request callback or has not.
ServerConstructed ==
  /\ run_state = "constructed"
  /\ crashed = FALSE
  /\ accepted = {}
  /\ fd = [s \in Sockets |-> INVALID_SOCKET_VALUE]
  /\ clients = << >>
  /\ master_fds = {}
  /\ close_calls = [s \in Sockets |-> 0]
  /\ disconnect_calls = [s \in Sockets |-> 0]
  /\ written = [s \in Sockets |-> 0]
  /\ handling = nullptr
  /\ message = << >>
  /\ request = NoRequest
  /\ response = NoResponse
  /\ looked_up = NoLookup
  /\ calls = 0
  /\ served = 0
  /\ stop_called = FALSE
  /\ listening = TRUE
  /\ stopped_calls = 0
  /\ request_callback_set \in BOOLEAN
  /\ event = NoEvent
  /\ reported = FALSE

(***************************************************************************)
(* The message handler fed by its connections                              *)
(***************************************************************************)
Init ==
  /\ under_handling_data = << >>
  /\ \E s \in Streams : stream = [c \in Connections |-> IF c = FirstConnection THEN s ELSE << >>]
  /\ sent = [c \in Connections |-> 0]
  /\ phase = [c \in Connections |-> "idle"]
  /\ had_entry = [c \in Connections |-> FALSE]
  /\ whole = [c \in Connections |-> FALSE]
  /\ last = [c \in Connections |-> NoResult]
  /\ n_complete = [c \in Connections |-> 0]
  /\ first_complete = [c \in Connections |-> NoResult.ret]
  /\ last_activity = << >>
  /\ ServerInit
  /\ BuilderIdle
  /\ SweepIdle
  /\ RaceIdle
  /\ AddressIdle
  /\ ContainerIdle

\* What the server records of a call of handle: o is what the call did,
\* k the length of the message.  The entry the call leaves for the
\* connection was created or continued by it, at steady_clock::now()
\* (lines 37, 262, 438).
record_result(c, k, o) ==
  /\ under_handling_data' = o.map
  /\ sent' = [sent EXCEPT ![c] = sent[c] + k]
  /\ phase' = [phase EXCEPT ![c] = IF phase[c] = "idle" THEN "first" ELSE "later"]
  /\ had_entry' = [had_entry EXCEPT ![c] = remote_address[c] \in DOMAIN under_handling_data]
  /\ whole' = [whole EXCEPT ![c] = IF phase[c] = "idle"
                                   THEN HeaderEnd(stream[c]) \in 1..k
                                   ELSE whole[c]]
  /\ last' = [last EXCEPT ![c] = [threw |-> o.threw, ret |-> o.ret]]
  /\ n_complete' = [n_complete EXCEPT ![c] = IF IsComplete(o) THEN @ + 1 ELSE @]
  /\ first_complete' =
       [first_complete EXCEPT ![c] = IF IsComplete(o) /\ n_complete[c] = 0 THEN o.ret ELSE @]
  /\ last_activity' = [key \in DOMAIN o.map |->
                         IF key = remote_address[c] THEN now ELSE last_activity[key]]
  /\ UNCHANGED stream

\* The client of c delivers the next k bytes of its stream, the server reads
\* them as one message and passes it to http_message_handler::handle.
on_message_received(c, k) ==
  record_result(c, k,
                handle(under_handling_data, remote_address[c],
                       SubSeq(stream[c], sent[c] + 1, sent[c] + k), get_fd[c]))

Receive == \E c \in Connections : \E k \in 1..(Len(stream[c]) - sent[c]) : on_message_received(c, k)

(***************************************************************************)
(* The idle sweep next to the calls of handle                              *)
(***************************************************************************)
\* The streams of the connections the sweep meets: a request without a
\* body, one with a Content-Length body, a chunked one.
SweepStreams ==
  { RequestLine \o CRLF,
    RequestLine \o HeaderLine(NameContentLength, Decimal(2)) \o CRLF \o Body(2),
    RequestLine \o ChunkedHeader \o CRLF \o Chunk(0, 1) \o LastChunk }

\* What a later connection sends: a request with a body of two bytes.
LaterStream == RequestLine \o HeaderLine(NameContentLength, Decimal(2)) \o CRLF \o Body(2)

SweepInit ==
  /\ under_handling_data = << >>
  /\ \E s \in SweepStreams :
       stream = [c \in Connections |-> IF c = FirstConnection THEN s ELSE LaterStream]
  /\ sent = [c \in Connections |-> 0]
  /\ phase = [c \in Connections |-> "idle"]
  /\ had_entry = [c \in Connections |-> FALSE]
  /\ whole = [c \in Connections |-> FALSE]
  /\ last = [c \in Connections |-> NoResult]
  /\ n_complete = [c \in Connections |-> 0]
  /\ first_complete = [c \in Connections |-> NoResult.ret]
  /\ last_activity = << >>
  /\ ServerInit
  /\ BuilderIdle
  /\ SweepIdle
  /\ RaceIdle
  /\ AddressIdle
  /\ ContainerIdle

\* Time passes.
tick(seconds) ==
  /\ now + seconds <= MaxNow
  /\ now' = now + seconds
  /\ UNCHANGED << vars, outside_handler_but_sweep, conn_activity, open, closed_callbacks, mtx,
                  pending, cleanup >>

\* An open connection sends its next k bytes; handle takes the mutex for
\* the whole call (lines 22-30).
timed_receive(c, k) ==
  /\ open[c]
  /\ mtx = "free"
  /\ on_message_received(c, k)
  /\ conn_activity' = [conn_activity EXCEPT ![c] = now]
  /\ UNCHANGED << outside_handler_but_sweep, now, open, closed_callbacks, mtx, pending, cleanup >>

\* The peer closes an open connection: the server reads nothing from it and
\* closes it.  The handler is not told, what it keeps for the connection
\* stays.
peer_close(c) ==
  /\ open[c]
  /\ open' = [open EXCEPT ![c] = FALSE]
  /\ UNCHANGED << vars, outside_handler_but_sweep, now, conn_activity, closed_callbacks, mtx,
                  pending, cleanup >>

\* The server accepts a connection: no open connection has its address and
\* port, none has its descriptor.
accept_connection(c) ==
  /\ c \in pending
  /\ \A o \in Connections :
       open[o] => remote_address[o] # remote_address[c] /\ get_fd[o] # get_fd[c]
  /\ pending' = pending \ {c}
  /\ open' = [open EXCEPT ![c] = TRUE]
  /\ conn_activity' = [conn_activity EXCEPT ![c] = now]
  /\ UNCHANGED << vars, outside_handler_but_sweep, now, closed_callbacks, mtx, cleanup >>

\* Lines 105-107: the lock is taken, now is read, the iteration begins.
cleanup_begin ==
  /\ cleanup.pc = "idle"
  /\ mtx = "free"
  /\ mtx' = "cleanup_idle_connections"
  /\ cleanup' = [NoCleanup EXCEPT !.pc = "scan", !.now = now, !.it = DOMAIN under_handling_data]
  /\ UNCHANGED << vars, outside_handler_but_sweep, now, conn_activity, open, closed_callbacks, pending >>

\* Lines 107-119, one entry: an entry whose last_activity is more than
\* max_idle_time before now has close_connection called on its FD; another
\* is passed over.  (The entries are visited in the order of their keys;
\* with what the loop does to each, the order changes nothing.)
visit(key) ==
  IF cleanup.now - last_activity[key] > MAX_IDLE_TIME_SECONDS
  THEN [cleanup EXCEPT !.pc = "callback", !.key = key, !.FD = under_handling_data[key].FD]
  ELSE [cleanup EXCEPT !.it = @ \ {key}]

cleanup_visit ==
  /\ cleanup.pc = "scan"
  /\ cleanup.it # {}
  /\ cleanup' = visit(CHOOSE key \in cleanup.it : TRUE)
  /\ UNCHANGED << vars, outside_handler_but_sweep, now, conn_activity, open, closed_callbacks,
                  mtx, pending >>

\* The close_connection function the server passes to the sweep: it closes
\* the connection that has the descriptor, and the connection-closed
\* callback fires for it.
close_connection_by_fd ==
  /\ cleanup.pc = "callback"
  /\ open' = [c \in Connections |-> IF get_fd[c] = cleanup.FD THEN FALSE ELSE open[c]]
  /\ closed_callbacks' =
       [c \in Connections |-> IF get_fd[c] = cleanup.FD /\ open[c] THEN closed_callbacks[c] + 1
                              ELSE closed_callbacks[c]]
  /\ cleanup' = [cleanup EXCEPT !.pc = "returned"]
  /\ UNCHANGED << vars, outside_handler_but_sweep, now, conn_activity, mtx, pending >>

\* Line 112: the entry is erased and the iteration goes on.
cleanup_erase ==
  /\ cleanup.pc = "returned"
  /\ under_handling_data' = map_erase(under_handling_data, cleanup.key)
  /\ last_activity' = map_erase(last_activity, cleanup.key)
  /\ cleanup' = [cleanup EXCEPT !.pc = "scan", !.it = @ \ {cleanup.key}]
  /\ UNCHANGED << stream, sent, phase, had_entry, whole, last, n_complete, first_complete,
                  outside_handler_but_sweep, now, conn_activity, open, closed_callbacks, mtx, pending >>

\* Line 120: the iteration is over, the lock_guard releases the mutex.
cleanup_end ==
  /\ cleanup.pc = "scan"
  /\ cleanup.it = {}
  /\ mtx' = "free"
  /\ cleanup' = [cleanup EXCEPT !.pc = "idle"]
  /\ UNCHANGED << vars, outside_handler_but_sweep, now, conn_activity, open, closed_callbacks, pending >>

\* The reads of a connection: all it has still to send, or all but the last
\* byte.
SweepReads(c) ==
  { k \in { Len(stream[c]) - sent[c] - 1, Len(stream[c]) - sent[c] } : k >= 1 }

SweepNext ==
  \/ \E seconds \in Ticks : tick(seconds)
  \/ \E c \in Connections : \E k \in SweepReads(c) : timed_receive(c, k)
  \/ \E c \in Connections : peer_close(c)
  \/ \E c \in Connections : accept_connection(c)
  \/ cleanup_begin
  \/ cleanup_visit
  \/ close_connection_by_fd
  \/ cleanup_erase
  \/ cleanup_end

(***************************************************************************)
(* tcp_server::remove_client and the calls that reach it                    *)
(***************************************************************************)
\* The part of the server's state remove_client works on.
TableState ==
  [fd |-> fd, clients |-> clients, master_fds |-> master_fds, close_calls |-> close_calls,
   disconnect_calls |-> disconnect_calls, crashed |-> crashed]

\* select_server::remove_fd: FD_CLR(fd.get(), &master_fds).  With a valid
\* descriptor the bit is cleared.  With INVALID_SOCKET_VALUE the index is
\* outside the set, which is undefined: the build either aborts the process
\* (fortified FD_CLR) or touches no client's bit.
remove_fd(t, d, outcome) ==
  IF d # INVALID_SOCKET_VALUE
  THEN [t EXCEPT !.master_fds = @ \ {d}]
  ELSE IF outcome = "abort" THEN [t EXCEPT !.crashed = TRUE] ELSE t

\* A disconnect that closes the descriptor and leaves the socket holding
\* its number.
disconnect_without_invalidate(t, sock) ==
  IF t.fd[sock] # INVALID_SOCKET_VALUE THEN [t EXCEPT !.close_calls[sock] = @ + 1] ELSE t

\* socket::disconnect: closes the descriptor only while it is valid, then
\* invalidates it.
disconnect(t, sock) ==
  IF t.fd[sock] # INVALID_SOCKET_VALUE
  THEN [t EXCEPT !.close_calls[sock] = @ + 1, !.fd[sock] = INVALID_SOCKET_VALUE]
  ELSE t

\* clients_container::erase: removes the first stored socket, null
\* pointers passed over, whose descriptor value equals that of the given
\* socket.
erase_at(t, Matches) ==
  IF Matches = {} THEN t
  ELSE LET i == CHOOSE k \in Matches : \A j \in Matches : k <= j
       IN  [t EXCEPT !.clients = SubSeq(@, 1, i - 1) \o SubSeq(@, i + 1, Len(@))]

erase(t, sock) ==
  erase_at(t, {i \in 1..Len(t.clients) :
                 t.clients[i] # nullptr /\ t.fd[t.clients[i]] = t.fd[sock]})

\* http_server::on_client_disconnect -> client_disconnected_callback.
on_client_disconnect(t, sock) == [t EXCEPT !.disconnect_calls[sock] = @ + 1]

\* tcp_server::remove_client, lines 70-85, once the descriptor has been
\* taken out of the select set.
remove_client_cleared(t, sock) ==
  IF t.crashed THEN t ELSE on_client_disconnect(erase(disconnect(t, sock), sock), sock)

\* tcp_server::remove_client: a null pointer throws before anything is
\* done (the exception goes to on_exception).
remove_client(t, sock, outcome) ==
  IF sock = nullptr THEN t ELSE remove_client_cleared(remove_fd(t, t.fd[sock], outcome), sock)

\* tcp_server::close_connection.
close_connection(t, sock, outcome) == remove_client(t, sock, outcome)

set_table(t) ==
  /\ fd' = t.fd
  /\ clients' = t.clients
  /\ master_fds' = t.master_fds
  /\ close_calls' = t.close_calls
  /\ disconnect_calls' = t.disconnect_calls
  /\ crashed' = t.crashed

UndefinedOutcomes == {"abort", "ignored"}

\* The server takes a step of its loop: it runs, no handler is running.
Serving == run_state = "running" /\ ~crashed /\ handling = nullptr

\* check_for_activity skips sockets that are not connected.
Readable(s) ==
  /\ \E i \in 1..Len(clients) : clients[i] = s
  /\ fd[s] # INVALID_SOCKET_VALUE

lowest_free_descriptor ==
  LET Open == {fd[s] : s \in accepted}
  IN  CHOOSE d \in Descriptors \ Open : \A e \in Descriptors \ Open : d <= e

\* tcp_server::handle_new_connection.
handle_new_connection(s) ==
  /\ Serving
  /\ s \notin accepted
  /\ accepted' = accepted \cup {s}
  /\ fd' = [fd EXCEPT ![s] = lowest_free_descriptor]
  /\ clients' = Append(clients, s)
  /\ master_fds' = master_fds \cup {lowest_free_descriptor}
  /\ event' = [kind |-> "accept", sock |-> s]
  /\ reported' = FALSE
  /\ UNCHANGED << outside_server, loop_ends, run_state, crashed, close_calls, disconnect_calls, written, handling,
                  message, request, response, looked_up, calls,
                  served >>

\* The messages a client sends to the server: header names repeated in one
\* and in both letter cases, and a Content-Length with a body that is
\* shorter than, as long as, and longer than declared.
ServerMessages ==
  { RequestLine \o CRLF,
    RequestLine \o HeaderLine(<< "X" >>, << "1" >>) \o HeaderLine(<< "X" >>, << "2" >>) \o CRLF,
    RequestLine \o HeaderLine(<< "x" >>, << "1" >>) \o HeaderLine(<< "X" >>, << "2" >>) \o CRLF,
    RequestLine \o HeaderLine(<< "A" >>, << "1" >>) \o HeaderLine(<< "x" >>, << "2" >>) \o CRLF,
    RequestLine \o HeaderLine(NameContentLength, Decimal(2)) \o CRLF \o Body(1),
    RequestLine \o HeaderLine(NameContentLength, Decimal(2)) \o CRLF \o Body(2),
    RequestLine \o HeaderLine(NameContentLength, Decimal(2)) \o CRLF \o Body(3),
    RequestLine \o HeaderLine(NameContentLength, << "x" >>) \o CRLF,
    RequestLine \o HeaderLine(to_lower_case(NameContentLength), Decimal(1)) \o CRLF \o Body(1) }

\* The names a handler asks get_header for.
QueryNames == { << "x" >>, << "X" >> }

\* Lines 122-145: the request and the response are built and
\* request_callback is entered.  wrapped: the application hands the
\* response to its handler inside a web_response.
enter_request_callback(s, m, built, wrapped) ==
  /\ handling' = s
  /\ message' = m
  /\ request' = built
  /\ response' = [NoResponse EXCEPT !.wrapped = wrapped]
  /\ looked_up' = NoLookup
  /\ calls' = 0
  /\ served' = served + 1
  /\ reported' = FALSE
  /\ UNCHANGED << outside_server, loop_ends, run_state, crashed, accepted, fd, clients, master_fds, close_calls,
                  disconnect_calls, written >>

\* http_server::on_exception -> error_callback: the catch blocks of run()
\* and of handle_client_activity do nothing else with an exception.
on_exception ==
  /\ reported' = TRUE
  /\ UNCHANGED << outside_server, loop_ends, run_state, crashed, accepted, fd, clients, master_fds,
                  close_calls, disconnect_calls, written, handling, message, request, response,
                  looked_up, calls, served >>

request_parsed(s, m, parsed, wrapped) ==
  IF parsed.threw THEN on_exception ELSE enter_request_callback(s, m, parsed.request, wrapped)

\* http_server::on_message_received: an empty message closes the
\* connection; any other throws when no request_callback is set, and is
\* parsed and handed to request_callback otherwise.
http_server_on_message_received(s, m, wrapped) ==
  IF m = << >>
  THEN /\ set_table(close_connection(TableState, s, "ignored"))
       /\ reported' = FALSE
       /\ UNCHANGED << outside_server, loop_ends, run_state, accepted, written, handling, message,
                       request, response, looked_up, calls, served >>
  ELSE IF ~request_callback_set
       THEN on_exception
       ELSE request_parsed(s, m, server_parse(m, s), wrapped)

\* What the first ::read of socket::receive_on_connection meets: bytes, the
\* end of the stream (0), EAGAIN / EWOULDBLOCK, or another error.
ReadOutcomes == {"data", "eof", "would_block", "error"}

\* socket::receive_on_connection: the bytes that were read; the loop breaks
\* with nothing read at the end of the stream and at EAGAIN alike.
receive_on_connection(outcome) == IF outcome = "data" THEN ServerMessages ELSE {<< >>}

\* tcp_server::handle_client_activity: a read error is thrown and caught
\* here; what receive_on_connection returned goes to on_message_received.
handle_client_activity(s) ==
  /\ Serving
  /\ Readable(s)
  /\ \E outcome \in ReadOutcomes : \E m \in receive_on_connection(outcome) :
     \E wrapped \in BOOLEAN :
       /\ m = << >> => ~wrapped
       /\ m # << >> => served < MaxRequests
       /\ event' = [kind |-> outcome, sock |-> s]
       /\ IF outcome = "error"
          THEN on_exception
          ELSE http_server_on_message_received(s, m, wrapped)

\* tcp_server::run, lines 160-173 and 186-191: select fails, the exception
\* is caught inside the loop and passed to on_exception.
select_error ==
  /\ Serving
  /\ event' = [kind |-> "select_error", sock |-> nullptr]
  /\ on_exception

\* tcp_server::run, lines 176-184: select timed out, on_waiting_for_activity
\* runs (http_server.cpp 210-215: the application's callback) and no socket
\* is ready.
on_waiting_for_activity ==
  /\ Serving
  /\ event' = [kind |-> "timeout", sock |-> nullptr]
  /\ reported' = FALSE
  /\ UNCHANGED << outside_server, loop_ends, run_state, crashed, accepted, fd, clients, master_fds,
                  close_calls, disconnect_calls, written, handling, message, request, response,
                  looked_up, calls, served >>

\* The handler is running and makes one more call.
Calling == handling # nullptr /\ ~crashed /\ calls < MaxCalls

\* request.get_header(name).
call_get_header(name) ==
  /\ Calling
  /\ looked_up' = [name |-> name, values |-> get_header(request, name),
                   cleared |-> request.client_socket = nullptr]
  /\ calls' = calls + 1
  /\ UNCHANGED << outside_server, loop_ends, event, reported, run_state, crashed, accepted, fd, clients, master_fds, close_calls,
                  disconnect_calls, written, handling, message, request, response, served >>

\* The send_message closure of the response: the message is written to the
\* client's socket with socket::send_on_connection, whose write fails (and
\* throws) on an invalidated descriptor.
send_message(sock) ==
  written' = [written EXCEPT ![sock] = IF fd[sock] # INVALID_SOCKET_VALUE THEN @ + 1 ELSE @]

\* http_response::send: validate() holds, the serialized response goes to
\* send_message.
http_response_send ==
  /\ Calling
  /\ ~response.wrapped
  /\ send_message(handling)
  /\ response' = [response EXCEPT !.send_calls = @ + 1,
                                  !.late_sends = IF response.end_calls > 0 THEN @ + 1 ELSE @]
  /\ calls' = calls + 1
  /\ UNCHANGED << outside_server, loop_ends, event, reported, run_state, crashed, accepted, fd, clients, master_fds, close_calls,
                  disconnect_calls, handling, message, request, looked_up, served >>

\* http_response::end: validate() holds, close_connection is called; the
\* closure (http_server.cpp, lines 124-127) is this->close_connection on
\* the client's socket.
http_response_end(outcome) ==
  /\ set_table(close_connection(TableState, handling, outcome))
  /\ response' = [response EXCEPT !.end_calls = @ + 1, !.closes = @ + 1,
                                  !.did_end = response.wrapped]
  /\ calls' = calls + 1
  /\ UNCHANGED << outside_server, loop_ends, event, reported, run_state, accepted, written, handling, message, request, looked_up,
                  served >>

\* web_response::end: the first call sets did_end and ends the response,
\* a later one returns at once.
web_response_end(outcome) ==
  IF response.did_end
  THEN /\ response' = [response EXCEPT !.end_calls = @ + 1]
       /\ calls' = calls + 1
       /\ UNCHANGED << outside_server, loop_ends, event, reported, run_state, crashed, accepted, fd, clients, master_fds, close_calls,
                       disconnect_calls, written, handling, message, request, looked_up,
                       served >>
  ELSE http_response_end(outcome)

\* The handler calls end() on the response it holds.
call_end ==
  /\ Calling
  /\ \E outcome \in UndefinedOutcomes :
       IF response.wrapped THEN web_response_end(outcome) ELSE http_response_end(outcome)

\* http_request::destroy(true): close_connection on the request's socket,
\* then uri, headers, body and the socket pointer are cleared.
http_request_destroy ==
  /\ Calling
  /\ \E outcome \in UndefinedOutcomes :
       set_table(close_connection(TableState, request.client_socket, outcome))
  /\ request' = [request EXCEPT !.uri = << >>, !.headers = << >>, !.body = << >>,
                                !.client_socket = nullptr]
  /\ calls' = calls + 1
  /\ UNCHANGED << outside_server, loop_ends, event, reported, run_state, accepted, written, handling, message, response, looked_up,
                  served >>

\* request_callback returns; the request and the response go out of scope.
callback_return ==
  /\ handling # nullptr
  /\ ~crashed
  /\ handling' = nullptr
  /\ message' = << >>
  /\ request' = NoRequest
  /\ response' = NoResponse
  /\ looked_up' = NoLookup
  /\ calls' = 0
  /\ UNCHANGED << outside_server, loop_ends, event, reported, run_state, crashed, accepted, fd, clients, master_fds, close_calls,
                  disconnect_calls, written, served >>

\* tcp_server::run, lines 150-152: set_running_status(true), on_server_listen.
run_start ==
  /\ run_state = "constructed"
  /\ ~crashed
  /\ run_state' = "running"
  /\ UNCHANGED << outside_server, loop_ends, event, reported, crashed, accepted, fd, clients,
                  master_fds, close_calls, disconnect_calls, written, handling, message, request,
                  response, looked_up, calls, served >>

\* tcp_server::stop, from any thread: running.store(false).  Before run()
\* has stored true the flag is false already.
stop ==
  /\ run_state \in {"constructed", "running"}
  /\ ~crashed
  /\ run_state' = IF run_state = "running" THEN "stopping" ELSE run_state
  /\ stop_called' = TRUE
  /\ UNCHANGED << outside_server, listening, stopped_calls, request_callback_set, event, reported,
                  crashed, accepted, fd, clients, master_fds, close_calls, disconnect_calls,
                  written, handling, message, request, response, looked_up, calls,
                  served >>

\* tcp_server::run, lines 193-205, after the loop was left:
\* close_connection on every socket of a copy of the client table,
\* clients.clear(), close_server_socket (the server socket is there and
\* running is false), on_server_stopped.
RECURSIVE close_each(_, _)
close_each(t, copy) ==
  IF copy = << >> THEN t
  ELSE close_each(close_connection(t, Head(copy), "ignored"), Tail(copy))

run_exit ==
  /\ run_state = "stopping"
  /\ ~crashed
  /\ handling = nullptr
  /\ set_table([close_each(TableState, clients) EXCEPT !.clients = << >>])
  /\ run_state' = "stopped"
  /\ listening' = FALSE
  /\ stopped_calls' = stopped_calls + 1
  /\ UNCHANGED << outside_server, stop_called, request_callback_set, event, reported, accepted, written, handling, message, request, response, looked_up, calls,
                  served >>

ServerNext ==
  \/ \E s \in Sockets : handle_new_connection(s)
  \/ \E s \in Sockets : handle_client_activity(s)
  \/ \E name \in QueryNames : call_get_header(name)
  \/ http_response_send
  \/ call_end
  \/ http_request_destroy
  \/ callback_return
  \/ select_error
  \/ on_waiting_for_activity
  \/ run_start
  \/ stop
  \/ run_exit

\* The handler of http_message_handler before any connection: the part of
\* the state the server of http_server.cpp never touches.
HandlerIdle ==
  /\ under_handling_data = << >>
  /\ stream = [c \in Connections |-> << >>]
  /\ sent = [c \in Connections |-> 0]
  /\ phase = [c \in Connections |-> "idle"]
  /\ had_entry = [c \in Connections |-> FALSE]
  /\ whole = [c \in Connections |-> FALSE]
  /\ last = [c \in Connections |-> NoResult]
  /\ n_complete = [c \in Connections |-> 0]
  /\ first_complete = [c \in Connections |-> NoResult.ret]
  /\ last_activity = << >>

(***************************************************************************)
(* close_connection called from two threads: the statements of             *)
(* remove_client and of socket::disconnect one by one                      *)
(***************************************************************************)
\* What a thread in close_connection leaves alone besides the table.
outside_table ==
  << vars, builder_vars, sweep_vars, address_vars, container_vars, run_state, accepted, written, handling, message, request,
     response, looked_up, calls, served, stop_called, listening, stopped_calls,
     request_callback_set, event, reported >>

\* The server running with every socket accepted and in the table.
RaceInit ==
  /\ run_state = "running"
  /\ crashed = FALSE
  /\ accepted = Sockets
  /\ fd \in {f \in [Sockets -> Descriptors] : \A s, o \in Sockets : f[s] = f[o] => s = o}
  /\ clients \in {c \in [1..Cardinality(Sockets) -> Sockets] : \A i, j \in DOMAIN c : c[i] = c[j] => i = j}
  /\ master_fds = Descriptors
  /\ close_calls = [s \in Sockets |-> 0]
  /\ disconnect_calls = [s \in Sockets |-> 0]
  /\ written = [s \in Sockets |-> 0]
  /\ handling = nullptr
  /\ message = << >>
  /\ request = NoRequest
  /\ response = NoResponse
  /\ looked_up = NoLookup
  /\ calls = 0
  /\ served = 0
  /\ stop_called = FALSE
  /\ listening = TRUE
  /\ stopped_calls = 0
  /\ request_callback_set = TRUE
  /\ event = NoEvent
  /\ reported = FALSE

goto(t, pc) == closers' = [closers EXCEPT ![t].pc = pc]

\* close_connection(sock_ptr) is called (tcp_server.cpp 319-324: the
\* lock_guard on close_mutex is commented out).
close_connection_call(t, sock) ==
  /\ ~crashed
  /\ closers[t].pc = "idle"
  /\ closers[t].calls < MaxCloseCalls
  /\ closers' = [closers EXCEPT ![t] = [pc |-> "remove_fd", sock |-> sock, calls |-> @.calls + 1]]
  /\ UNCHANGED << outside_table, fd, clients, master_fds, close_calls, disconnect_calls, crashed >>

\* remove_client, line 72: fd_select_server.remove_fd on the descriptor
\* the socket holds now.
remove_fd_step(t) ==
  /\ ~crashed
  /\ closers[t].pc = "remove_fd"
  /\ \E outcome \in UndefinedOutcomes :
       set_table(remove_fd(TableState, fd[closers[t].sock], outcome))
  /\ goto(t, "disconnect")
  /\ UNCHANGED outside_table

\* socket::disconnect, line 707: if (fd.get() != INVALID_SOCKET_VALUE).
disconnect_test(t) ==
  /\ ~crashed
  /\ closers[t].pc = "disconnect"
  /\ goto(t, IF fd[closers[t].sock] # INVALID_SOCKET_VALUE THEN "close_socket" ELSE "erase")
  /\ UNCHANGED << outside_table, fd, clients, master_fds, close_calls, disconnect_calls, crashed >>

\* Line 709: close_socket(fd.get()); fd is read again and ::close is called
\* on what it holds (on -1, ::close fails and closes nothing).
close_socket_step(t) ==
  /\ ~crashed
  /\ closers[t].pc = "close_socket"
  /\ close_calls' = [close_calls EXCEPT ![closers[t].sock] =
                       IF fd[closers[t].sock] # INVALID_SOCKET_VALUE THEN @ + 1 ELSE @]
  /\ goto(t, "invalidate")
  /\ UNCHANGED << outside_table, fd, clients, master_fds, disconnect_calls, crashed >>

\* Line 710: fd.invalidate().
invalidate(t) ==
  /\ ~crashed
  /\ closers[t].pc = "invalidate"
  /\ fd' = [fd EXCEPT ![closers[t].sock] = INVALID_SOCKET_VALUE]
  /\ goto(t, "erase")
  /\ UNCHANGED << outside_table, clients, master_fds, close_calls, disconnect_calls, crashed >>

\* remove_client, line 81: clients.erase(sock_ptr), under the container's
\* lock.
erase_step(t) ==
  /\ ~crashed
  /\ closers[t].pc = "erase"
  /\ set_table(erase(TableState, closers[t].sock))
  /\ goto(t, "on_client_disconnect")
  /\ UNCHANGED outside_table

\* remove_client, line 85: on_client_disconnect; close_connection returns.
on_client_disconnect_step(t) ==
  /\ ~crashed
  /\ closers[t].pc = "on_client_disconnect"
  /\ set_table(on_client_disconnect(TableState, closers[t].sock))
  /\ goto(t, "idle")
  /\ UNCHANGED outside_table

RaceNext ==
  \/ \E t \in Threads : \E sock \in Sockets : close_connection_call(t, sock)
  \/ \E t \in Threads : remove_fd_step(t)
  \/ \E t \in Threads : disconnect_test(t)
  \/ \E t \in Threads : close_socket_step(t)
  \/ \E t \in Threads : invalidate(t)
  \/ \E t \in Threads : erase_step(t)
  \/ \E t \in Threads : on_client_disconnect_step(t)

(***************************************************************************)
(* Specifications                                                          *)
(***************************************************************************)
\* The message handler fed by its connections; the select-based server
\* stays as constructed.
Next == Receive /\ UNCHANGED outside_handler

Spec == Init /\ [][Next]_all_vars

(***************************************************************************)
(* socket_address construction                                             *)
(***************************************************************************)
AddressInit ==
  /\ HandlerIdle
  /\ ServerInit
  /\ BuilderIdle
  /\ SweepIdle
  /\ RaceIdle
  /\ ContainerIdle
  /\ address_input \in [ip : IpTexts, port : Ports, family : Families]
  /\ socket_address_object = NotConstructed

\* new socket_address(ip_address(ip), port(p), family(f)).
construct ==
  /\ socket_address_object.state = "none"
  /\ \E outcome \in UndefinedOutcomes :
       socket_address_object' =
         socket_address(address_input.ip, address_input.port, address_input.family, outcome)
  /\ UNCHANGED << vars, server_vars, builder_vars, sweep_vars, race_vars, container_vars,
                  address_input >>

AddressNext == construct

AddressSpec == AddressInit /\ [][AddressNext]_all_vars

(***************************************************************************)
(* for_each on a container that is changed while it runs                   *)
(***************************************************************************)
MaxContainerLen == 3

\* What the vector holds when for_each is called: sockets and null
\* pointers, in the order of their insertion.
ContainerContents == UNION {[1..n -> Sockets \cup {nullptr}] : n \in 0..MaxContainerLen}

outside_container ==
  << vars, builder_vars, sweep_vars, race_vars, address_vars, run_state, crashed, accepted, fd,
     master_fds, close_calls, disconnect_calls, written, handling, message, request, response,
     looked_up, calls, served, stop_called, listening, stopped_calls, request_callback_set,
     event, reported >>

ForEachInit ==
  /\ HandlerIdle
  /\ BuilderIdle
  /\ SweepIdle
  /\ RaceIdle
  /\ AddressIdle
  /\ ContainerIdle
  /\ run_state = "running"
  /\ crashed = FALSE
  /\ accepted = Sockets
  /\ fd = [s \in Sockets |-> IF s = "s1" THEN FirstDescriptor ELSE FirstDescriptor + 1]
  /\ clients \in ContainerContents
  /\ master_fds = Descriptors
  /\ close_calls = [s \in Sockets |-> 0]
  /\ disconnect_calls = [s \in Sockets |-> 0]
  /\ written = [s \in Sockets |-> 0]
  /\ handling = nullptr
  /\ message = << >>
  /\ request = NoRequest
  /\ response = NoResponse
  /\ looked_up = NoLookup
  /\ calls = 0
  /\ served = 0
  /\ stop_called = FALSE
  /\ listening = TRUE
  /\ stopped_calls = 0
  /\ request_callback_set = TRUE
  /\ event = NoEvent
  /\ reported = FALSE

\* Lines 175-176: for_each is called and takes the lock.
for_each_lock ==
  /\ for_each_call.pc = "idle"
  /\ container_mtx = "free"
  /\ container_mtx' = "for_each"
  /\ for_each_call' = [for_each_call EXCEPT !.pc = "locked"]
  /\ UNCHANGED << outside_container, clients, container_ops >>

\* Lines 177-178: the vector is copied and the lock released.
for_each_copy ==
  /\ for_each_call.pc = "locked"
  /\ container_mtx' = "free"
  /\ for_each_call' =
       [for_each_call EXCEPT !.pc = "iterating", !.copy = clients, !.i = 1, !.snapshot = clients]
  /\ UNCHANGED << outside_container, clients, container_ops >>

\* The element the loop of line 179 is at.
for_each_item_live(copy, live, i) == IF i <= Len(live) THEN live[i] ELSE nullptr

for_each_item(copy, live, i) == copy[i]

\* Lines 179-183, one element: func is called with it unless it is null.
for_each_func ==
  /\ for_each_call.pc = "iterating"
  /\ for_each_call.i <= Len(for_each_call.copy)
  /\ LET sock == for_each_item(for_each_call.copy, clients, for_each_call.i)
     IN  for_each_call' =
           [for_each_call EXCEPT !.i = @ + 1,
                                 !.visited = IF sock # nullptr THEN Append(@, sock) ELSE @]
  /\ UNCHANGED << outside_container, clients, container_mtx, container_ops >>

\* Line 184: the loop is over, for_each returns.
for_each_return ==
  /\ for_each_call.pc = "iterating"
  /\ for_each_call.i > Len(for_each_call.copy)
  /\ for_each_call' = [for_each_call EXCEPT !.pc = "returned"]
  /\ UNCHANGED << outside_container, clients, container_mtx, container_ops >>

\* A change of the container, by func itself or by another thread, takes
\* the lock for the length of the call.
MayChange == container_mtx = "free" /\ container_ops < MaxContainerOps

\* clients_container::insert, lines 60-64.
insert(sock) ==
  /\ MayChange
  /\ clients' = Append(clients, sock)
  /\ container_ops' = container_ops + 1
  /\ UNCHANGED << outside_container, container_mtx, for_each_call >>

\* clients_container::erase, lines 76-90, called with a socket.
erase_call(sock) ==
  /\ MayChange
  /\ clients' = erase(TableState, sock).clients
  /\ container_ops' = container_ops + 1
  /\ UNCHANGED << outside_container, container_mtx, for_each_call >>

\* clients_container::clear, lines 123-127.
clear ==
  /\ MayChange
  /\ clients' = << >>
  /\ container_ops' = container_ops + 1
  /\ UNCHANGED << outside_container, container_mtx, for_each_call >>

ForEachNext ==
  \/ for_each_lock
  \/ for_each_copy
  \/ for_each_func
  \/ for_each_return
  \/ \E sock \in Sockets \cup {nullptr} : insert(sock)
  \/ \E sock \in Sockets : erase_call(sock)
  \/ clear

ForEachSpec == ForEachInit /\ [][ForEachNext]_all_vars

\* The select-based server of tcp_server.cpp and http_server.cpp, which
\* parses each message itself; the message handler stays idle.
ServerStart ==
  HandlerIdle /\ ServerConstructed /\ BuilderIdle /\ SweepIdle /\ RaceIdle /\ AddressIdle /\ ContainerIdle

ServerSpec == ServerStart /\ [][ServerNext]_all_vars

\* The steps the server takes by itself: a request_callback that was entered
\* returns, and the loop of run(), once stop() was called, leaves and shuts
\* the server down.  What clients do (connect, send, close), the
\* application's stop() and the calls a handler chooses to make are not
\* guaranteed to happen.
FairServerSpec ==
  ServerSpec /\ WF_all_vars(run_start) /\ WF_all_vars(callback_return) /\ WF_all_vars(run_exit)

\* A response a handler fills in and serializes; the handler and the
\* server stay idle.
ResponseStart ==
  HandlerIdle /\ ServerInit /\ BuilderInit /\ SweepIdle /\ RaceIdle /\ AddressIdle /\ ContainerIdle

ResponseNext ==
  /\ \/ \E status \in Statuses : set_status(status.code, status.message)
     \/ \E version \in ResponseVersions : set_version(version)
     \/ \E body \in ResponseBodies : set_body(body)
     \/ \E name \in FieldNames : \E value \in FieldValues : add_header(name, value)
     \/ \E name \in FieldNames : \E value \in FieldValues : add_trailer(name, value)
     \/ \E instant \in Clock : call_to_string(instant)
  /\ UNCHANGED << vars, server_vars, sweep_vars, race_vars, address_vars, container_vars >>

ResponseSpec == ResponseStart /\ [][ResponseNext]_all_vars

\* Two threads closing connections of a running server.
RaceStart ==
  HandlerIdle /\ RaceInit /\ BuilderIdle /\ SweepIdle /\ RaceIdle /\ AddressIdle /\ ContainerIdle

RaceSpec == RaceStart /\ [][RaceNext]_all_vars

\* The message handler with the clock running and the idle sweep.
SweepSpec == SweepInit /\ [][SweepNext]_all_vars

(***************************************************************************)
(* What a message says, read off its bytes (the protocol's reading, not    *)
(* the handler's)                                                          *)
(***************************************************************************)
\* The lines of a byte string: cut at every LF, a CR before the LF dropped.
RECURSIVE RefLines(_)
RefLines(s) ==
  IF s = << >> THEN << >>
  ELSE LET n    == IF \E i \in 1..Len(s) : s[i] = LF
                   THEN CHOOSE i \in 1..Len(s) : s[i] = LF /\ \A j \in 1..(i - 1) : s[j] # LF
                   ELSE Len(s) + 1
           raw  == SubSeq(s, 1, n - 1)
           line == IF raw # << >> /\ raw[Len(raw)] = CR THEN SubSeq(raw, 1, Len(raw) - 1) ELSE raw
       IN  << line >> \o RefLines(SubSeq(s, n + 1, Len(s)))

\* The whitespace-separated tokens of a line.
RECURSIVE RefTokens(_)
RefTokens(line) ==
  IF line = << >> THEN << >>
  ELSE IF isspace(Head(line)) THEN RefTokens(Tail(line))
  ELSE LET n == IF \E i \in 1..Len(line) : isspace(line[i])
                THEN CHOOSE i \in 1..Len(line) :
                       isspace(line[i]) /\ \A j \in 1..(i - 1) : ~isspace(line[j])
                ELSE Len(line) + 1
       IN  << SubSeq(line, 1, n - 1) >> \o RefTokens(SubSeq(line, n, Len(line)))

RefRequestTokens(m) == IF RefLines(m) = << >> THEN << >> ELSE RefTokens(Head(RefLines(m)))

\* The header lines of a message: the lines after the first, up to the
\* first empty one, that hold a colon.
RECURSIVE RefUpToEmpty(_)
RefUpToEmpty(lines) ==
  IF lines = << >> \/ Head(lines) = << >> THEN << >>
  ELSE << Head(lines) >> \o RefUpToEmpty(Tail(lines))

RefHeaderLines(m) ==
  IF RefLines(m) = << >> THEN << >>
  ELSE SelectSeq(RefUpToEmpty(Tail(RefLines(m))), LAMBDA l : \E i \in 1..Len(l) : l[i] = ":")

RefColon(l) == CHOOSE i \in 1..Len(l) : l[i] = ":" /\ \A j \in 1..(i - 1) : l[j] # ":"

RefName(l) == SubSeq(l, 1, RefColon(l) - 1)

RefRawValue(l) == SubSeq(l, RefColon(l) + 1, Len(l))

\* A value without its leading and trailing blanks.
RECURSIVE RefTrim(_)
RefTrim(v) ==
  IF v = << >> THEN v
  ELSE IF Head(v) \in {SP, HT} THEN RefTrim(Tail(v))
  ELSE IF v[Len(v)] \in {SP, HT} THEN RefTrim(SubSeq(v, 1, Len(v) - 1))
  ELSE v

RECURSIVE SumLen(_)
SumLen(strings) == IF strings = << >> THEN 0 ELSE Len(Head(strings)) + SumLen(Tail(strings))

\* The size of the first n header lines: names plus trimmed values, and
\* names plus values as they stand.
RefTrimmedSize(m, n) ==
  SumLen([i \in 1..n |-> RefName(RefHeaderLines(m)[i]) \o RefTrim(RefRawValue(RefHeaderLines(m)[i]))])

RefRawSize(m) ==
  SumLen([i \in 1..Len(RefHeaderLines(m)) |->
            RefName(RefHeaderLines(m)[i]) \o RefRawValue(RefHeaderLines(m)[i])])

\* The size of a header multimap: its names plus its values.
HeadersSize(headers) ==
  SumLen([i \in 1..Len(headers) |-> headers[i].name \o headers[i].value])

\* The result of the handler for a stream given to it in one message.
WholeResult(c) == start_handling(<< >>, remote_address[c], stream[c], get_fd[c]).ret

\* The message of the first call on c, and whether c has an entry in the map.
FirstMessage(c) == SubSeq(stream[c], 1, sent[c])

HasEntry(c) == remote_address[c] \in DOMAIN under_handling_data

(***************************************************************************)
(* Fragmentation                                                           *)
(***************************************************************************)
\* C1: a valid request delivered in any number of fragments gives exactly
\* one completed result that is no error, and it is the result the handler
\* gives for the request in one message.
C1_FragmentationInvariance ==
  \A c \in Connections :
    (stream[c] \in ValidRequests /\ sent[c] = Len(stream[c]))
      => (n_complete[c] = 1 /\ first_complete[c] = WholeResult(c))

\* C2: as long as the bytes of a valid request received so far do not hold
\* the empty line that ends the header section, the handler asks for more
\* (completed = false).
C2_NoPrematureCompletion ==
  \A c \in Connections :
    (stream[c] \in ValidRequests /\ phase[c] # "idle" /\ sent[c] < HeaderEnd(stream[c]))
      => IsNeedMore(last[c])

\* The well-formed chunked requests of the model.
ValidChunkedRequests ==
  { RequestLine \o ChunkedHeader \o CRLF \o chunks \o LastChunk :
      chunks \in ChunkSeqs(0, MaxChunks, MAX_BODY_SIZE) }

\* C3: a well-formed chunked request whose header section came whole in the
\* first message, its body cut anywhere, ends with one completed result
\* whose body is the body of the unfragmented request.
C3_ChunkedAcrossFragments ==
  \A c \in Connections :
    (stream[c] \in ValidChunkedRequests /\ whole[c] /\ sent[c] = Len(stream[c]))
      => (n_complete[c] = 1 /\ first_complete[c].body = WholeResult(c).body)

(***************************************************************************)
(* Content-Length framing and the body bound                               *)
(***************************************************************************)
ContentLengthHead(n) == RequestLine \o HeaderLine(NameContentLength, Decimal(n)) \o CRLF

\* The length a stream of ContentLengthStreams declares.
Declared(s) ==
  CHOOSE n \in 0..MaxDeclared : SubSeq(s, 1, Len(ContentLengthHead(n))) = ContentLengthHead(n)

\* The body bytes of c delivered so far, and the entry of c in the map.
Accumulated(c) == SubSeq(stream[c], HeaderEnd(stream[c]) + 1, sent[c])

Entry(c) == under_handling_data[remote_address[c]]

\* The last call was a step of a Content-Length request in progress: the
\* first message, holding the whole header section, or a continuation.
ContentLengthStep(c) ==
  /\ stream[c] \in ContentLengthStreams
  /\ whole[c]
  /\ phase[c] = "first" \/ had_entry[c]

\* What C4 says of a step, n the declared length.
ContentLengthFraming(c, n) ==
  /\ Len(Accumulated(c)) = n
       => IsComplete(last[c]) /\ last[c].ret.body = Accumulated(c) /\ ~HasEntry(c)
  /\ Len(Accumulated(c)) < n
       => IsNeedMore(last[c]) /\ HasEntry(c) /\ Entry(c).body = Accumulated(c)
  /\ Len(Accumulated(c)) > n
       => IsFatal(last[c]) /\ last[c].ret.method = BAD_CONTENT_TOO_LARGE

C5_BodyBound ==
  /\ \A key \in DOMAIN under_handling_data : Len(under_handling_data[key].body) <= MAX_BODY_SIZE
  /\ \A c \in Connections : IsComplete(last[c]) => Len(last[c].ret.body) <= MAX_BODY_SIZE

\* C6: a request that declares a Content-Length greater than MAX_BODY_SIZE
\* is answered with Fatal BAD_CONTENT_TOO_LARGE, whatever part of the body
\* came with the headers.
C6_DeclaredLengthTooLarge ==
  \A c \in Connections :
    (stream[c] \in ContentLengthStreams /\ whole[c] /\ phase[c] = "first"
       /\ Declared(stream[c]) > MAX_BODY_SIZE)
      => (IsFatal(last[c]) /\ last[c].ret.method = BAD_CONTENT_TOO_LARGE)

(***************************************************************************)
(* The header section and the request line of the first message            *)
(***************************************************************************)
\* Two header names are the same but for letter case.
RefSameName(a, b) == Len(a) = Len(b) /\ \A i \in 1..Len(a) : tolower[a[i]] = tolower[b[i]]

RefNamed(m, name) == SelectSeq(RefHeaderLines(m), LAMBDA l : RefSameName(RefName(l), name))

\* t occurs in v, letter case aside.
RefOccurs(t, v) ==
  \E i \in 0..(Len(v) - Len(t)) : \A j \in 1..Len(t) : tolower[v[i + j]] = tolower[t[j]]

RefHasContentLength(m) == RefNamed(m, NameContentLength) # << >>

RefHasChunked(m) ==
  \E i \in 1..Len(RefNamed(m, NameTransferEncoding)) :
    RefOccurs(chunked, RefRawValue(RefNamed(m, NameTransferEncoding)[i]))

\* The first message of c got past the request line and the header bound.
RefRequestLineBad(m) == Len(RefRequestTokens(m)) < 3

RefHeadersOver(m) == RefTrimmedSize(m, Len(RefHeaderLines(m))) > MAX_HEADER_SIZE

RefHeadersWithin(m) == RefRawSize(m) <= MAX_HEADER_SIZE

FatalWith(c, code) ==
  IsFatal(last[c]) /\ last[c].ret.method = code /\ ~HasEntry(c)

FramingRefused(c) ==
  /\ IsFatal(last[c]) /\ ~HasEntry(c)
  /\ RefRequestLineBad(FirstMessage(c)) => last[c].ret.method = BAD_METHOD_OR_URI_OR_VERSION
  /\ (~RefRequestLineBad(FirstMessage(c)) /\ RefHeadersOver(FirstMessage(c)))
       => last[c].ret.method = BAD_HEADERS_TOO_LARGE
  /\ (~RefRequestLineBad(FirstMessage(c)) /\ RefHeadersWithin(FirstMessage(c)))
       => last[c].ret.method = BAD_REPEATED_LENGTH_OR_TRANSFER_ENCODING_OR_BOTH
  /\ last[c].ret.method \in { BAD_METHOD_OR_URI_OR_VERSION, BAD_HEADERS_TOO_LARGE,
                              BAD_REPEATED_LENGTH_OR_TRANSFER_ENCODING_OR_BOTH }

BothFramingHeaders(c) ==
  /\ phase[c] = "first"
  /\ RefHasContentLength(FirstMessage(c))
  /\ RefHasChunked(FirstMessage(c))

RepeatedContentLength(c) ==
  /\ phase[c] = "first"
  /\ Len(RefNamed(FirstMessage(c), NameContentLength)) > 1

RECURSIVE RefHex(_)
RefHex(t) == IF t = << >> THEN 0 ELSE 16 * RefHex(SubSeq(t, 1, Len(t) - 1)) + HexDigitValue(t[Len(t)])

\* The position of the first CRLF of s, and the size its first line gives
\* (the line up to its first ';' read as a hexadecimal number).
RefLineEnd(s) ==
  CHOOSE i \in 1..(Len(s) - 1) :
    s[i] = CR /\ s[i + 1] = LF /\ \A j \in 1..(i - 1) : ~(s[j] = CR /\ s[j + 1] = LF)

RefSizeToken(line) ==
  IF \E i \in 1..Len(line) : line[i] = ";"
  THEN SubSeq(line, 1, (CHOOSE i \in 1..Len(line) : line[i] = ";" /\ \A j \in 1..(i - 1) : line[j] # ";") - 1)
  ELSE line

RefChunkSize(s) == RefHex(RefSizeToken(SubSeq(s, 1, RefLineEnd(s) - 1)))

\* The data octets of the chunks of a well-formed chunked body, in order:
\* size line, data, CRLF, repeated up to the chunk of size zero.
RECURSIVE RefChunkData(_)
RefChunkData(s) ==
  IF RefChunkSize(s) = 0 THEN << >>
  ELSE SubSeq(s, RefLineEnd(s) + 2, RefLineEnd(s) + 1 + RefChunkSize(s))
       \o RefChunkData(SubSeq(s, RefLineEnd(s) + RefChunkSize(s) + 4, Len(s)))

RefChunkedBody(s) == RefChunkData(SubSeq(s, HeaderEnd(s) + 1, Len(s)))

\* Well-formed chunked requests: those of ValidChunkedRequests, and requests
\* with a chunk extension, a leading zero in the size, a trailer, and data
\* octets that read like the end of a chunked body.
WellFormedChunked ==
  ValidChunkedRequests
  \cup { ChunkedHead \o << "2", ";", "x", CR, LF, "a", "b", CR, LF >> \o LastChunk,
         ChunkedHead \o << "0", "2", CR, LF, "a", "b", CR, LF >> \o LastChunk,
         ChunkedHead \o Chunk(0, 2) \o << "0", CR, LF, "T", ":", SP, "v", CR, LF, CR, LF >>,
         ChunkedHead \o << "3", CR, LF, "0", CR, LF, CR, LF >> \o LastChunk }

\* A chunk whose data is not followed by CRLF.
MissingChunkCRLF ==
  { ChunkedHead \o << "2", CR, LF, "a", "b", "c", CR, LF >> \o LastChunk }

\* C11: the body of the Complete result of a well-formed chunked stream is
\* the data octets of its chunks, in order, and a chunk whose data is not
\* followed by CRLF is answered with Fatal BAD_CHUNK_ENCODING.
C11_ChunkedDecoding ==
  \A c \in Connections :
    /\ (stream[c] \in WellFormedChunked /\ whole[c] /\ n_complete[c] > 0)
         => first_complete[c].body = RefChunkedBody(stream[c])
    /\ (stream[c] \in MissingChunkCRLF /\ phase[c] = "first" /\ sent[c] = Len(stream[c]))
         => (IsFatal(last[c]) /\ last[c].ret.method = BAD_CHUNK_ENCODING)

\* The first line of s as far as s holds it (up to its first LF, a CR before
\* it dropped) and what follows the line.
RefHead(s) == Head(RefLines(s))

RefAfterHead(s) ==
  IF \E i \in 1..Len(s) : s[i] = LF
  THEN SubSeq(s, (CHOOSE i \in 1..Len(s) : s[i] = LF /\ \A j \in 1..(i - 1) : s[j] # LF) + 1, Len(s))
  ELSE << >>

RefHexDigits ==
  { "0", "1", "2", "3", "4", "5", "6", "7", "8", "9",
    "a", "b", "c", "d", "e", "f", "A", "B", "C", "D", "E", "F" }

\* A chunk-size line that is empty, has an empty token before its first
\* ';', or has a character that is no hexadecimal digit in the token.
RefSizeLineBad(line) ==
  \/ line = << >>
  \/ RefSizeToken(line) = << >>
  \/ \E i \in 1..Len(RefSizeToken(line)) : RefSizeToken(line)[i] \notin RefHexDigits

\* Reading s chunk by chunk after a body of acc octets, a bad chunk-size
\* line is met: every chunk before it is whole, ends with CRLF and keeps
\* the body within MAX_BODY_SIZE.
RECURSIVE RefMeetsBadSizeLine(_, _)
RefChunkWhole(rest, n, acc) ==
  /\ n > 0 /\ n <= MAX_BODY_SIZE /\ acc + n <= MAX_BODY_SIZE
  /\ Len(rest) >= n + 2 /\ rest[n + 1] = CR /\ rest[n + 2] = LF

RefMeetsBadSizeLine(s, acc) ==
  IF s = << >> THEN FALSE
  ELSE IF RefSizeLineBad(RefHead(s)) THEN TRUE
  ELSE IF ~RefChunkWhole(RefAfterHead(s), RefHex(RefSizeToken(RefHead(s))), acc) THEN FALSE
  ELSE RefMeetsBadSizeLine(SubSeq(RefAfterHead(s), RefHex(RefSizeToken(RefHead(s))) + 3,
                                    Len(RefAfterHead(s))),
                           acc + RefHex(RefSizeToken(RefHead(s))))

\* The message a step passes to the handler.
StepMessage(c) == SubSeq(stream[c], sent[c] + 1, sent'[c])

\* A message that starts a chunked request: a valid request line, headers
\* within the bound and whole, chunked and no Content-Length.
StartsChunked(m) ==
  /\ HeaderEnd(m) > 0
  /\ ~RefRequestLineBad(m) /\ RefHeadersWithin(m)
  /\ RefHasChunked(m) /\ ~RefHasContentLength(m)

RECURSIVE RefTrailerSection(_, _)
RefTrailerSection(s, acc) ==
  IF s = << >> \/ RefSizeLineBad(RefHead(s))
  THEN [reached |-> FALSE, lines |-> << >>]
  ELSE IF RefHex(RefSizeToken(RefHead(s))) = 0
  THEN [reached |-> TRUE, lines |-> RefUpToEmpty(RefLines(RefAfterHead(s)))]
  ELSE IF ~RefChunkWhole(RefAfterHead(s), RefHex(RefSizeToken(RefHead(s))), acc)
  THEN [reached |-> FALSE, lines |-> << >>]
  ELSE RefTrailerSection(SubSeq(RefAfterHead(s), RefHex(RefSizeToken(RefHead(s))) + 3,
                                Len(RefAfterHead(s))),
                         acc + RefHex(RefSizeToken(RefHead(s))))

RefTrailerBad(t) == \E i \in 1..Len(t.lines) : \A j \in 1..Len(t.lines[i]) : t.lines[i][j] # ":"

\* The headers of a message as pairs of upper-case name and trimmed value,
\* and a multimap that holds exactly these pairs.
RefHeaderPairs(m) ==
  [i \in 1..Len(RefHeaderLines(m)) |->
     [name  |-> [j \in 1..Len(RefName(RefHeaderLines(m)[i])) |->
                   toupper[RefName(RefHeaderLines(m)[i])[j]]],
      value |-> RefTrim(RefRawValue(RefHeaderLines(m)[i]))]]

SamePairs(a, b) ==
  /\ Len(a) = Len(b)
  /\ \A i \in 1..Len(a) :
       Cardinality({j \in 1..Len(a) : a[j] = a[i]}) = Cardinality({j \in 1..Len(b) : b[j] = a[i]})

\* What C13 says of a step that reads the trailer section t: Fatal
\* BAD_TRAILER_HEADERS when a trailer line has no colon, else Complete with
\* the headers given.
TrailersDiscarded(c, t, headers) ==
  t.reached =>
    IF RefTrailerBad(t)
    THEN IsFatal(last'[c]) /\ last'[c].ret.method = BAD_TRAILER_HEADERS
    ELSE IsComplete(last'[c]) /\ SamePairs(headers, last'[c].ret.headers)

C14_EnumeratedErrorCodes ==
  \A c \in Connections : IsFatal(last[c]) => last[c].ret.method \in ErrorCodes

(***************************************************************************)
(* The request handed to request_callback                                  *)
(***************************************************************************)
\* The values of the header lines of m whose name is name but for letter
\* case, in the order of the lines.
RefValues(m, name) ==
  [i \in 1..Len(RefNamed(m, name)) |-> RefTrim(RefRawValue(RefNamed(m, name)[i]))]

\* C15: get_header is case-insensitive and order-preserving.  Whatever
\* name, in whatever letter case, a handler passes to get_header of a
\* request it has not destroyed, the values returned are those of all the
\* header lines of the request whose name matches but for letter case, in
\* the order of the lines.
C15_HeaderLookup ==
  (handling # nullptr /\ looked_up.name # << >> /\ ~looked_up.cleared)
    => looked_up.values = RefValues(message, looked_up.name)

\* The length a message declares: the decimal value of its first
\* Content-Length line.
RefDeclares(m) ==
  /\ RefHasContentLength(m)
  /\ RefValues(m, NameContentLength)[1] # << >>
  /\ \A i \in 1..Len(RefValues(m, NameContentLength)[1]) : isdigit(RefValues(m, NameContentLength)[1][i])

RefDeclared(m) == decimal_value(RefValues(m, NameContentLength)[1], 0)

\* C16: request_callback runs only on a fully assembled request.  While
\* the handler runs on a request whose message declares Content-Length n
\* (and has not destroyed the request), the body of the request has
\* exactly n octets.
C16_FullBody ==
  (handling # nullptr /\ request.client_socket # nullptr /\ RefDeclares(message))
    => Len(request.body) = RefDeclared(message)

(***************************************************************************)
(* Closing a connection                                                    *)
(***************************************************************************)
InTable(s) == \E i \in 1..Len(clients) : clients[i] = s

\* C17: exactly-once close.  For every accepted connection, whatever close
\* requests reach it (an empty read, response.end(), request.destroy(),
\* the shutdown of the server, in any number and order): its descriptor
\* is closed at most once and on_client_disconnect fires at most once,
\* and once the descriptor is closed it has been closed exactly once, the
\* connection is out of the client table and on_client_disconnect has
\* fired exactly once.
C17_ExactlyOnceClose ==
  \A s \in accepted :
    /\ close_calls[s] <= 1
    /\ disconnect_calls[s] <= 1
    /\ fd[s] = INVALID_SOCKET_VALUE
         => close_calls[s] = 1 /\ ~InTable(s) /\ disconnect_calls[s] = 1

\* C18: end() is idempotent on a response.  However many times the handler
\* calls end() on the response it holds, the close-connection action of
\* the response is performed exactly once: every end() after the first is
\* a no-op.
C18_EndIdempotent ==
  (handling # nullptr /\ response.end_calls >= 1) => response.closes = 1

(***************************************************************************)
(* Writing to a connection                                                 *)
(***************************************************************************)
\* C19: after end() has been called on a response, nothing is written to
\* the connection any more: a step in which bytes are written to a socket
\* is never a step of a handler that has already called end() on its
\* response, so a send() issued after end() writes nothing.
C19_NoBytesAfterEnd ==
  [][\A s \in Sockets : written'[s] > written[s] => response.end_calls = 0]_all_vars

\* A handler has called end() and then send(), and nothing was written.
C19_Witness ==
  /\ handling # nullptr
  /\ response.end_calls = 1
  /\ response.send_calls = 1
  /\ response.late_sends = 1
  /\ written[handling] = 0

\* C20: close after response.  Once a response has been written to a
\* connection by send(), the server eventually closes that connection's
\* socket, whether or not the handler goes on to call end().
C20_CloseAfterResponse ==
  \A s \in Sockets : (written[s] > 0) ~> (fd[s] = INVALID_SOCKET_VALUE)

(***************************************************************************)
(* The serialized response read field by field                             *)
(***************************************************************************)
RefDigitStrings == UNION {[1..k -> {ASCII[Ord["0"] + d] : d \in 0..9}] : k \in 1..3}

\* The decimal numeral of a status code: the digit string without a leading
\* zero whose value is the code.
RefNumeral(n) ==
  CHOOSE d \in RefDigitStrings : decimal_value(d, 0) = n /\ (Len(d) = 1 \/ d[1] # "0")

RefOrderings(fields) ==
  {[i \in 1..Len(fields) |-> fields[p[i]]] : p \in Permutations(1..Len(fields))}

RECURSIVE RefFieldLines(_)
RefFieldLines(fields) ==
  IF fields = << >> THEN << >>
  ELSE [i \in 1..Len(Head(fields).name) |-> toupper[Head(fields).name[i]]]
       \o << ":", SP >> \o Head(fields).value \o << CR, LF >> \o RefFieldLines(Tail(fields))

RefStatusLine ==
  http_response_object.version \o << SP >> \o RefNumeral(http_response_object.status_code)
  \o << SP >> \o http_response_object.status_message \o << CR, LF >>

RefDateLine == << "D", "a", "t", "e", ":", SP >> \o get_current_date(serialized.now) \o << CR, LF >>

\* C21: the text of to_string() is the status line, the Date line, one
\* line with the upper-cased name per header that was given, one empty
\* line, the body, and one line with the upper-cased name per trailer that
\* was given; the values and the body are in it as they were given.
C21_SerializationOrder ==
  serialized.made =>
    LET first == RefStatusLine \o RefDateLine
        trailer_parts == {RefFieldLines(ts) : ts \in RefOrderings(added.trailers)}
    IN  \E hs \in RefOrderings(added.headers) : \E last_part \in trailer_parts :
          serialized.text = first \o RefFieldLines(hs) \o << CR, LF >>
                            \o http_response_object.body \o last_part

C21_Witness ==
  /\ serialized.made
  /\ Len(added.headers) = 2
  /\ added.headers[1].name = << "c" >>
  /\ added.headers[2].name = << "A" >>
  /\ Len(added.trailers) = 1
  /\ http_response_object.body = << "t", ":", SP, "u", CR, LF >>
  /\ http_response_object.status_code = 404

(***************************************************************************)
(* The loop of run() and its end                                           *)
(***************************************************************************)
\* Every connection the server accepted is closed and out of the table and
\* of the select set, and the listener is closed.
AllClosed ==
  /\ ~listening
  /\ clients = << >>
  /\ master_fds = {}
  /\ \A s \in accepted : fd[s] = INVALID_SOCKET_VALUE

\* C23: once running is false the loop is left; on_server_stopped fires
\* once and no more, and when it has fired the listener and every
\* connection are closed.
C23_ShutdownSequence ==
  /\ [](stopped_calls <= 1)
  /\ [](stopped_calls = 1 => AllClosed)
  /\ (run_state = "stopping") ~> (stopped_calls = 1)

\* C24: after stop() has been called, from whatever thread and at whatever
\* point of listen() / run(), run() returns.
C24_StopHonoured == stop_called ~> (run_state = "stopped")

\* The step in which the loop reads from s and the read has the outcome:
\* the loop is running, no handler runs, and the step leaves the event of
\* that read (stop(), which leaves the event as it was, changes run_state).
ReadStep(s, outcome) ==
  /\ run_state = "running" /\ ~crashed /\ handling = nullptr
  /\ run_state' = run_state
  /\ event' = [kind |-> outcome, sock |-> s]

\* C25: a read from a connection that fails with an error closes that
\* connection, which leaves the table and the select set, and every other
\* connection stays as it was: open, in the table and in the select set.
C25_ReadFailureIsolation ==
  [][\A s \in Sockets :
       ReadStep(s, "error") =>
         /\ fd'[s] = INVALID_SOCKET_VALUE
         /\ \A i \in 1..Len(clients') : clients'[i] # s
         /\ fd[s] \notin master_fds'
         /\ \A o \in Sockets \ {s} :
              /\ fd'[o] = fd[o]
              /\ (\E i \in 1..Len(clients') : clients'[i] = o) = InTable(o)
              /\ (fd[o] \in master_fds') = (fd[o] \in master_fds)]_all_vars

\* C26: when select has failed the error is reported and the loop is not
\* running any more.
C26_SelectErrorEndsLoop == event.kind = "select_error" => reported /\ run_state # "running"

\* C27: when a request has arrived and no request callback is set, the
\* error is reported and the connection is closed and out of the table.
C27_NoHandlerCloses ==
  (event.kind = "data" /\ ~request_callback_set) =>
    /\ reported
    /\ fd[event.sock] = INVALID_SOCKET_VALUE
    /\ ~InTable(event.sock)

\* C28: a read that returns nothing because it would block leaves the
\* connection open, in the table and in the select set.
C28_WouldBlockKeepsOpen ==
  [][\A s \in Sockets :
       ReadStep(s, "would_block") =>
         /\ fd'[s] = fd[s]
         /\ \E i \in 1..Len(clients') : clients'[i] = s
         /\ fd[s] \in master_fds']_all_vars

(***************************************************************************)
(* The idle sweep                                                          *)
(***************************************************************************)
\* C22: when a run of the idle sweep ends, every connection whose last
\* activity was more than MAX_IDLE_TIME_SECONDS before the sweep read the
\* clock, whatever it has sent so far, is closed and the connection-closed
\* callback has fired for it.
C22_IdleSweepClosesIdle ==
  [][(cleanup.pc = "scan" /\ cleanup'.pc = "idle") =>
       \A c \in Connections :
         (open[c] /\ cleanup.now - conn_activity[c] > MAX_IDLE_TIME_SECONDS) =>
           ~open'[c] /\ closed_callbacks'[c] = 1]_all_vars

\* C30: while the close_connection function given to
\* cleanup_idle_connections runs, the mutex of the handler is free.
C30_NoLockDuringCallback == cleanup.pc = "callback" => mtx = "free"

(***************************************************************************)
(* close_connection from two threads                                       *)
(***************************************************************************)
\* C29: when close_connection is called for the same socket from the
\* reactor thread and from a handler thread, in every interleaving the
\* descriptor of the socket is closed once: never twice, and once when the
\* calls have returned.
C29_ConcurrentCloseOnce ==
  \A sock \in Sockets :
    /\ close_calls[sock] <= 1
    /\ ((\A t \in Threads : closers[t] = [pc |-> "idle", sock |-> sock, calls |-> 1]) /\ ~crashed)
         => close_calls[sock] = 1

(***************************************************************************)
(* The entry of a connection after a result                                *)
(***************************************************************************)
\* C34: after handle has returned a Complete result for a connection the
\* map holds no entry for it, and the next call of handle for it finds no
\* entry: its bytes are parsed from the request line.
C34_ResetOnComplete ==
  [][\A c \in Connections :
       /\ IsComplete([threw |-> last'[c].threw, ret |-> last'[c].ret]) => ~HasEntry(c)'
       /\ (IsComplete(last[c]) /\ sent'[c] > sent[c]) => ~had_entry'[c]]_all_vars

C34_Witness ==
  \E c \in Connections :
    /\ n_complete[c] = 1
    /\ first_complete[c].body # << >>
    /\ phase[c] = "later"
    /\ ~IsComplete(last[c])
    /\ ~had_entry[c]

\* C35: after handle has returned an error result for a connection, in the
\* first call or in a continuation, the map holds no entry for it.
C35_NoEntryAfterFatal == \A c \in Connections : IsFatal(last[c]) => ~HasEntry(c)

(***************************************************************************)
(* The header values the handler stores                                    *)
(***************************************************************************)
RefBlank(ch) == ch = " " \/ ch = HT

RefTrimmed(value) == value = << >> \/ (~RefBlank(value[1]) /\ ~RefBlank(value[Len(value)]))

RefAllTrimmed(headers) == \A i \in 1..Len(headers) : RefTrimmed(headers[i].value)

\* C37: every header value the handler has stored, in a result or in an
\* entry of the map, has no space or tab at its start or at its end; a
\* value of spaces and tabs only is stored as the empty string.
C37_HeaderValuesTrimmed ==
  /\ \A c \in Connections : ~last[c].threw => RefAllTrimmed(last[c].ret.headers)
  /\ \A key \in DOMAIN under_handling_data : RefAllTrimmed(under_handling_data[key].headers)

(***************************************************************************)
(* Connections that follow one another                                     *)
(***************************************************************************)
\* The sweep closes c in this step.
SweptNow(c) == open[c] /\ ~open'[c] /\ closed_callbacks'[c] > closed_callbacks[c]

\* C32: the first bytes of a connection never continue an entry: an entry
\* that is there before the connection has sent anything was made by another
\* connection.
C32_OwnEntryOnly ==
  [][\A c \in Connections : (sent[c] = 0 /\ sent'[c] > 0) => ~had_entry'[c]]_all_vars

\* C33: the sweep closes a connection only when its own last activity (its
\* accept, or the last bytes it sent) is more than MAX_IDLE_TIME_SECONDS
\* before the time the sweep read.
C33_SweepClosesOnlyIdle ==
  [][\A c \in Connections :
       SweptNow(c) => cleanup.now - conn_activity[c] > MAX_IDLE_TIME_SECONDS]_all_vars

\* C36, the refresh: after a call of handle that consumed bytes of a
\* connection, the entry under its key, when there is one, has the current
\* time as its last_activity.
C36_ActivityRefreshed ==
  [][\A c \in Connections :
       (sent'[c] > sent[c] /\ HasEntry(c)') => last_activity'[remote_address[c]] = now]_all_vars

\* C36: a connection that has sent bytes is closed by the sweep only when
\* the last of them came more than MAX_IDLE_TIME_SECONDS before the time
\* the sweep read.
C36_ActiveNeverSwept ==
  [][\A c \in Connections :
       (SweptNow(c) /\ sent[c] > 0) =>
         cleanup.now - conn_activity[c] > MAX_IDLE_TIME_SECONDS]_all_vars

(***************************************************************************)
(* remove_client and the table                                             *)
(***************************************************************************)
\* remove_client has run in this step, for s and for no other socket, to
\* its end: the disconnect callback has fired for s and the process lives.
Removed(s) ==
  /\ disconnect_calls'[s] = disconnect_calls[s] + 1
  /\ \A o \in Sockets \ {s} : disconnect_calls'[o] = disconnect_calls[o]
  /\ ~crashed'

\* C39: when remove_client(s) has returned s is out of the table and its
\* descriptor out of the select set, and every other socket is where it
\* was: in or out of the table, in or out of the select set, open or not.
C39_RemovesExactly ==
  [][\A s \in Sockets :
       Removed(s) =>
         /\ \A i \in 1..Len(clients') : clients'[i] # s
         /\ fd[s] \notin master_fds'
         /\ \A o \in Sockets \ {s} :
              /\ fd'[o] = fd[o]
              /\ (\E i \in 1..Len(clients') : clients'[i] = o) = InTable(o)
              /\ (fd[o] \in master_fds') = (fd[o] \in master_fds)]_all_vars

(***************************************************************************)
(* The descriptors select examines                                         *)
(***************************************************************************)
\* C38: max_fd, which select is called with, is at least every descriptor
\* of the select set.
C38_MaxFdCoversMaster == \A d \in master_fds : d <= max_fd

(***************************************************************************)
(* for_each                                                                *)
(***************************************************************************)
\* The sockets of a vector that are not null, in its order.
RefNonNull(v) == SelectSeq(v, LAMBDA sock : sock # nullptr)

\* C31: for_each calls func with the non-null sockets the container held
\* when the copy was made, each once and in the order of insertion, whatever
\* is inserted, erased or cleared meanwhile; while it iterates it does not
\* hold the lock, so those calls are not kept waiting.
C31_ForEachSnapshot ==
  /\ for_each_call.pc = "iterating" =>
       /\ container_mtx = "free"
       /\ for_each_call.visited =
            RefNonNull(SubSeq(for_each_call.snapshot, 1, for_each_call.i - 1))
  /\ for_each_call.pc = "returned" =>
       for_each_call.visited = RefNonNull(for_each_call.snapshot)

\* for_each is about to return: it has called func for two sockets and
\* passed over a null pointer, and the container was changed twice since the
\* call began and is not what was copied.
C31_Witness ==
  /\ for_each_call.pc = "iterating"
  /\ for_each_call.i > Len(for_each_call.snapshot)
  /\ Len(for_each_call.visited) = 2
  /\ Len(for_each_call.snapshot) = 3
  /\ container_ops = MaxContainerOps
  /\ clients # for_each_call.snapshot

(***************************************************************************)
(* socket_address                                                          *)
(***************************************************************************)
\* The bytes of a struct at an offset.
RefField(mem, offset, n) == [i \in 1..n |-> mem[offset + i]]

RefParsed == inet_pton(address_input.family, address_input.ip)

\* C40: an address is constructed only from a text that is an address of
\* its family, and the struct it holds is that of the family: a sockaddr_in
\* with the four bytes of the address in sin_addr for AF_INET, a
\* sockaddr_in6 with the sixteen bytes in sin6_addr for AF_INET6, of the
\* length get_sock_addr_len reports.
C40_AddressLayout ==
  socket_address_object.state = "constructed" =>
    /\ RefParsed.ok
    /\ Len(socket_address_object.addr) = get_sock_addr_len(socket_address_object)
    /\ RefField(socket_address_object.addr, 0, 2) = host_u16(address_input.family)
    /\ IF address_input.family = AF_INET
       THEN /\ Len(socket_address_object.addr) = Len(make_shared_sockaddr_in)
            /\ RefField(socket_address_object.addr, sin_addr_offset, 4) = RefParsed.bytes
       ELSE /\ Len(socket_address_object.addr) = Len(make_shared_sockaddr_in6)
            /\ RefField(socket_address_object.addr, sin6_addr_offset, 16) = RefParsed.bytes

====
